---- MODULE Spec2Model ----
(***************************************************************************)
(* Flood-control project analytics: ingestion, year filter and the three   *)
(* reports, as implemented twice in the repository:                        *)
(*   - the Kotlin pipeline   (src/unnamed/part_000, lines 113-781)          *)
(*   - the JavaScript pipeline (src/unnamed/part_001, lines 1-535)          *)
(* One behaviour of Spec is one interactive session of one of the two      *)
(* programs (variable lang) over one input file (variable file).           *)
(*                                                                         *)
(* Texts are sequences of one-character strings, so that parsing is a      *)
(* computation.  Optional values (Kotlin T?) are sets: {} is null and {v}  *)
(* is the value v.  Exact rationals <<n, d>> (d > 0) stand for doubles.    *)
(***************************************************************************)
EXTENDS Integers, Sequences, FiniteSets, TLC

VARIABLES
    lang,              \* the program of the session: "kotlin", "kotlin1", "js" or "r"
    file,              \* the input file on disk: Unreadable or a sequence of lines
    \* ---- Kotlin: main() locals (part_000:714-719)
    allProjects, totalRowsRead, errorRowCount, filteredProjects, isRunning,
    \* ---- Kotlin: readProjectsFromFile() locals while its loop runs
    pc, rdPos, rdProjects, rdLinesReadCount, rdErrorRowCount,
    \* ---- Kotlin: lazy costSavings delegates, by source row of the project
    lazyCostSavings,
    \* ---- Kotlin: the artifacts written by the last report generation
    ktReport1, ktReport2, ktReport3, ktSummary,
    \* ---- JavaScript: globals (part_001:15-17)
    running, FileLoaded, records,
    \* ---- JavaScript: artifacts written by the last report generation
    jsReport1, jsReport2, jsReport3, jsSummary,
    \* ---- what the last menu action printed (both programs)
    console,
    \* ---- R: one summarised contractor group and the report-2 rows made from it
    rSummarised, rReport2,
    \* ---- first Kotlin version: what main() holds once readProjectsFromFile returned
    v1Result

vars == << lang, file, allProjects, totalRowsRead, errorRowCount, filteredProjects,
           isRunning, pc, rdPos, rdProjects, rdLinesReadCount, rdErrorRowCount,
           lazyCostSavings, ktReport1, ktReport2, ktReport3, ktSummary,
           running, FileLoaded, records, jsReport1, jsReport2, jsReport3, jsSummary,
           console, rSummarised, rReport2, v1Result >>

rVars == << rSummarised, rReport2 >>

v1Vars == << v1Result >>

jsVars == << running, FileLoaded, records, jsReport1, jsReport2, jsReport3, jsSummary >>

----------------------------------------------------------------------------
(* Bounds of the model *)

\* longest file (data lines) drawn from the full line pool
MaxLines == 3
\* longest file (data lines) drawn from the contractor line pool
MaxLongLines == 6
\* the number of contractors in the largest file, one more than report 2 keeps
MaxContractors == 16
\* the number of data lines each contractor has in such a file
RowsPerContractor == 6

----------------------------------------------------------------------------
(* Generic helpers *)

Null == {}
Some(v) == {v}
Val(o) == CHOOSE v \in o : TRUE

Range(s) == { s[i] : i \in 1..Len(s) }

RECURSIVE SumSeq(_)
SumSeq(s) ==
    IF s = << >> THEN 0
    ELSE IF Len(s) = 1 THEN s[1]
    ELSE SumSeq(SubSeq(s, 1, Len(s) \div 2)) + SumSeq(SubSeq(s, Len(s) \div 2 + 1, Len(s)))

MapSeq(s, Op(_)) == [ i \in 1..Len(s) |-> Op(s[i]) ]

Abs(n) == IF n < 0 THEN -n ELSE n

\* sequences over S of length lo..hi
SeqsOf(S, lo, hi) == UNION { [ 1..n -> S ] : n \in lo..hi }

----------------------------------------------------------------------------
(* Texts and the Kotlin parsers *)

Digits == { "0", "1", "2", "3", "4", "5", "6", "7", "8", "9" }

DigitVal(c) ==
    CASE c = "0" -> 0 [] c = "1" -> 1 [] c = "2" -> 2 [] c = "3" -> 3 [] c = "4" -> 4
      [] c = "5" -> 5 [] c = "6" -> 6 [] c = "7" -> 7 [] c = "8" -> 8 [] c = "9" -> 9

IsDigits(s) == Len(s) > 0 /\ \A i \in 1..Len(s) : s[i] \in Digits

RECURSIVE DigitsVal(_)
DigitsVal(s) ==
    IF s = << >> THEN 0
    ELSE DigitsVal(SubSeq(s, 1, Len(s) - 1)) * 10 + DigitVal(s[Len(s)])

\* String.isBlank(): empty or only whitespace
isBlank(s) == \A i \in 1..Len(s) : s[i] = " "

\* String.replace(",", "")
removeCommas(s) == SelectSeq(s, LAMBDA c : c # ",")

\* String.toIntOrNull(): an optional sign and decimal digits, nothing else
toIntOrNull(s) ==
    IF IsDigits(s) THEN Some(DigitsVal(s))
    ELSE IF Len(s) > 1 /\ s[1] \in { "-", "+" } /\ IsDigits(Tail(s))
         THEN Some(IF s[1] = "-" THEN 0 - DigitsVal(Tail(s)) ELSE DigitsVal(Tail(s)))
         ELSE Null

\* String.toDoubleOrNull(), on the integer literals the model's texts hold
toDoubleOrNull(s) == toIntOrNull(s)

IsLeap(y) == (y % 4 = 0 /\ y % 100 # 0) \/ y % 400 = 0

DaysInMonth(y, m) ==
    IF m = 2 THEN (IF IsLeap(y) THEN 29 ELSE 28)
    ELSE IF m \in { 4, 6, 9, 11 } THEN 30 ELSE 31

RECURSIVE DaysBeforeMonth(_, _)
DaysBeforeMonth(y, m) ==
    IF m <= 1 THEN 0 ELSE DaysBeforeMonth(y, m - 1) + DaysInMonth(y, m - 1)

\* days from 0000-01-01 to y-m-d (proleptic Gregorian), the scale of LocalDate
EpochDay(y, m, d) ==
    365 * y + (y + 3) \div 4 - (y + 99) \div 100 + (y + 399) \div 400
      + DaysBeforeMonth(y, m) + (d - 1)

\* LocalDate.parse(text, ISO_LOCAL_DATE) succeeds: YYYY-MM-DD and a real date
IsIsoDate(s) ==
    /\ Len(s) = 10
    /\ s[5] = "-" /\ s[8] = "-"
    /\ IsDigits(SubSeq(s, 1, 4)) /\ IsDigits(SubSeq(s, 6, 7)) /\ IsDigits(SubSeq(s, 9, 10))
    /\ LET y == DigitsVal(SubSeq(s, 1, 4))
           m == DigitsVal(SubSeq(s, 6, 7))
           d == DigitsVal(SubSeq(s, 9, 10))
       IN  m \in 1..12 /\ d \in 1..DaysInMonth(y, m)

IsoEpochDay(s) ==
    EpochDay(DigitsVal(SubSeq(s, 1, 4)), DigitsVal(SubSeq(s, 6, 7)),
             DigitsVal(SubSeq(s, 9, 10)))

\* String.toDateOrNull(): a date as its epoch day, or null
toDateOrNull(s) ==
    IF isBlank(s) THEN Null
    ELSE IF IsIsoDate(s) THEN Some(IsoEpochDay(s)) ELSE Null

----------------------------------------------------------------------------
(* The input file.  A line is modelled after the split into columns         *)
(* (part_000:234): ncols is the number of columns the split yields (0 for a *)
(* blank line) and the named fields are the trimmed, unquoted texts at the  *)
(* column positions of part_000:217-226.                                    *)

\* a file is [readable, lines]; lines[1] is the header when there is one
Unreadable == [ readable |-> FALSE, lines |-> << >> ]
Readable(ls) == [ readable |-> TRUE, lines |-> ls ]

minColumns == 17

T_10  == << "1", "0" >>
T_12  == << "1", "2" >>
T_7   == << "7" >>
T_abc == << "a", "b", "c" >>
T_e   == << >>
Y2021 == << "2", "0", "2", "1" >>
Y2022 == << "2", "0", "2", "2" >>
Y2023 == << "2", "0", "2", "3" >>
Y2024 == << "2", "0", "2", "4" >>
D_0105 == << "2", "0", "2", "1", "-", "0", "1", "-", "0", "5" >>
D_0104 == << "2", "0", "2", "1", "-", "0", "1", "-", "0", "4" >>
D_0107 == << "2", "0", "2", "1", "-", "0", "1", "-", "0", "7" >>
D_0214 == << "2", "0", "2", "1", "-", "0", "2", "-", "1", "4" >>
D_0204 == << "2", "0", "2", "1", "-", "0", "2", "-", "0", "4" >>
Coord  == << "9" >>

Line(n, b, c, y, sd, cd, r, isl, con, w) ==
    [ ncols |-> n, budget |-> b, cost |-> c, fyear |-> y, sdate |-> sd, cdate |-> cd,
      region |-> r, island |-> isl, contractor |-> con, work |-> w,
      coords |-> << Coord, Coord, Coord, Coord >> ]

Header == Line(minColumns, << >>, << >>, << >>, << >>, << >>, "Region", "MainIsland",
               "Contractor", "TypeOfWork")

\* savings 3, delay 40 days, 2021
L_ok21      == Line(17, T_10, T_7, Y2021, D_0105, D_0214, "Region I", "Luzon", "A", "W1")
\* savings 5, delay 0 days, 2022
L_ok22      == Line(17, T_12, T_7, Y2022, D_0105, D_0105, "Region I", "Luzon", "A", "W1")
\* savings 5, delay 2 days, 2023, a work type with no 2021 group of its own
L_quick23   == Line(17, T_12, T_7, Y2023, D_0105, D_0107, "Region I", "Luzon", "B", "W2")
\* savings -3 (overrun), delay 40 days, 2022
L_overrun22 == Line(17, T_7, T_10, Y2022, D_0105, D_0214, "Region VI", "Visayas", "B", "W1")
\* savings 0, completed one day before the start, 2021
L_even21    == Line(17, T_7, T_7, Y2021, D_0105, D_0104, "Region VI", "Visayas", "B", "W2")
\* a whitespace-only line
L_blank     == Line(0, T_e, T_e, T_e, T_e, T_e, "", "", "", "")
\* a line with too few columns
L_short     == Line(3, T_e, T_e, T_e, T_e, T_e, "Region I", "", "", "")
\* descriptive text in the approved-budget column
L_textBudget == Line(17, T_abc, T_7, Y2021, D_0105, D_0214, "Region I", "Luzon", "A", "W1")
\* blank contract-cost column
L_blankCost == Line(17, T_10, T_e, Y2022, D_0105, D_0214, "Region I", "Luzon", "A", "W1")
\* unparseable funding year
L_yearBad   == Line(17, T_10, T_7, T_abc, D_0105, D_0214, "Region I", "Luzon", "A", "W1")
\* funding year just above the analysis range
L_year2024  == Line(17, T_10, T_7, Y2024, D_0105, D_0214, "Region I", "Luzon", "A", "W1")
\* both dates blank
L_noDates21 == Line(17, T_10, T_7, Y2021, T_e, T_e, "Region I", "Luzon", "A", "W1")

\* a start date that is no date
L_badDate21 == Line(17, T_10, T_7, Y2021, T_abc, D_0214, "Region I", "Luzon", "A", "W1")

LinePool == { L_ok21, L_ok22, L_quick23, L_overrun22, L_even21, L_blank, L_short,
              L_blankCost, L_yearBad, L_year2024, L_noDates21 }

\* savings 3, delay exactly 30 days, 2021
L_month21   == Line(17, T_10, T_7, Y2021, D_0105, D_0204, "Region I", "Luzon", "A", "W1")

\* lines of one region with a delay of exactly 30 days, one above it, and none
DelayPool == { L_month21, L_ok21, L_noDates21 }

\* the four categorical columns blank; savings 5, delay 0 days, 2022
L_noLabels22 == Line(17, T_12, T_7, Y2022, D_0105, D_0105, "", "", "", "")
\* a negative contract cost
L_negCost21 == Line(17, T_10, << "-", "7" >>, Y2021, D_0105, D_0214, "Region I", "Luzon",
                    "A", "W1")
\* an approved budget written with a thousands separator: 1,234
L_commas22  == Line(17, << "1", ",", "2", "3", "4" >>, T_7, Y2022, D_0105, D_0105,
                    "Region I", "Luzon", "A", "W1")

\* a blank funding year
L_noYear    == Line(17, T_10, T_7, T_e, D_0105, D_0214, "Region I", "Luzon", "A", "W1")

\* lines whose categorical, monetary, year or date columns are unusual, and a plain
\* one
EdgePool == { L_ok21, L_noLabels22, L_negCost21, L_commas22, L_noYear, L_textBudget,
              L_badDate21 }

\* L_ok21 in another region: savings 3, delay 40 days, 2021
L_okVI21    == Line(17, T_10, T_7, Y2021, D_0105, D_0214, "Region VI", "Visayas", "B", "W1")

\* lines of two regions whose efficiency scores tie, and one without a delay
TiePool == { L_ok21, L_okVI21, L_noDates21 }

\* lines that differ in contractor and in whether a delay is present
LongPool == { L_ok21, L_noDates21, L_overrun22 }

\* the decimal text of a natural number
RECURSIVE ToText(_)
ToText(n) ==
    LET digit(d) == CHOOSE c \in Digits : DigitVal(c) = d
    IN  IF n < 10 THEN << digit(n) >> ELSE ToText(n \div 10) \o << digit(n % 10) >>

ContractorName(i) == "C" \o ToString(i)

\* contract costs that are not in file order: 8, 15, 5, 12, 2, 9, 16, 6, ...
CostOf(i) == ((i * 7) % 17) + 1

\* a line of contractor i: budget 20, savings 20 - CostOf(i), delay 2 days, 2022
ContractorLine(i) ==
    Line(17, ToText(20), ToText(CostOf(i)), Y2022, D_0105, D_0107, "Region I", "Luzon",
         ContractorName(i), "W1")

\* a file of nc contractors with RowsPerContractor lines each
ContractorsFile(nc) ==
    Readable(<< Header >> \o [ k \in 1..(nc * RowsPerContractor) |->
                                ContractorLine(((k - 1) \div RowsPerContractor) + 1) ])

Files ==
    { Unreadable, Readable(<< >>) }
      \cup { Readable(<< Header >> \o d) : d \in SeqsOf(LinePool, 0, MaxLines) }
      \cup { Readable(<< Header >> \o d) : d \in SeqsOf(LongPool, MaxLines + 1, MaxLongLines) }
      \cup { ContractorsFile(nc) : nc \in { 2, MaxContractors - 1, MaxContractors } }
      \cup { Readable(<< Header >> \o d) : d \in SeqsOf(DelayPool, 1, MaxLines) }
      \cup { Readable(<< Header >> \o d) : d \in SeqsOf(EdgePool, 1, MaxLines) }
      \cup { Readable(<< Header >> \o d) : d \in SeqsOf(TiePool, 1, MaxLines) }

----------------------------------------------------------------------------
(* Kotlin: FloodProject and ingestion (part_000:157-294) *)

\* FloodProject(...) as built at part_000:273-286; row is the line of the file the
\* object was built from and stands for the object's identity
FloodProject(row, line, approvedBudget, contractCost) ==
    [ row            |-> row,
      approvedBudget |-> approvedBudget,
      contractCost   |-> contractCost,
      startDate      |-> toDateOrNull(line.sdate),
      completionDate |-> toDateOrNull(line.cdate),
      fundingYear    |-> toIntOrNull(line.fyear),
      region         |-> line.region,
      mainIsland     |-> line.island,
      contractorName |-> line.contractor,
      typeOfWork     |-> line.work ]

\* the initializer of the lazy costSavings delegate
costSavingsMutant(p) == p.contractCost - p.approvedBudget
costSavings(p) == p.approvedBudget - p.contractCost

\* the lazy completionDelayDays delegate: ChronoUnit.DAYS.between(start, completion)
completionDelayDays(p) ==
    IF p.startDate # Null /\ p.completionDate # Null
    THEN Some(Val(p.completionDate) - Val(p.startDate))
    ELSE Null

\* what one iteration of the loop at part_000:230-291 does with a line
\*   "blank"  : skipped, nothing counted          (231)
\*   "short"  : errorRowCount++                   (237-240)
\*   "money"  : errorRowCount++                   (255-258)
\*   "accept" : projects.add(...)                 (273-286)
\* the catch at 287-290 is not reachable: every index read is below minColumns
lineOutcome(line) ==
    IF line.ncols = 0 THEN "blank"
    ELSE IF line.ncols < minColumns THEN "short"
    ELSE IF toDoubleOrNull(removeCommas(line.budget)) = Null
            \/ toDoubleOrNull(removeCommas(line.cost)) = Null THEN "money"
    ELSE "accept"

\* the iteration counts the row as an error: errorRowCount++ (part_000:238, 256)
isErrorRowMutant(outcome) == outcome = "money"
isErrorRow(outcome) == outcome \in { "short", "money" }

\* the amount the row is accepted with; the first Kotlin reader (part_000:74-75)
\* wrote  toDoubleOrNull() ?: 0.0  here
amountOf(text) ==
    LET v == toDoubleOrNull(removeCommas(text)) IN IF v = Null THEN 0 ELSE Val(v)

\* filterProjectsByYear (part_000:301-307)
filterProjectsByYear(projects, startYear, endYear) ==
    SelectSeq(projects, LAMBDA p :
        p.fundingYear # Null /\ Val(p.fundingYear) >= startYear
                             /\ Val(p.fundingYear) <= endYear)

analysisStartYear == 2021
analysisEndYear == 2023

----------------------------------------------------------------------------
(* Doubles (both programs): a rational, NaN, +Infinity or -Infinity, and the   *)
(* JavaScript value undefined.  The D-operators are IEEE-754 arithmetic and  *)
(* comparison without rounding.                                             *)

RECURSIVE Gcd(_, _)
Gcd(a, b) == IF b = 0 THEN a ELSE Gcd(b, a % b)

\* the rational n/d (d # 0) in lowest terms with a positive denominator
Rat(n, d) ==
    LET g == Gcd(Abs(n), Abs(d))
        sg == IF d < 0 THEN -1 ELSE 1
    IN  [ k |-> "num", n |-> (sg * n) \div g, d |-> Abs(d) \div g ]

Num(n) == [ k |-> "num", n |-> n, d |-> 1 ]
NaN    == [ k |-> "nan", n |-> 0, d |-> 1 ]
PosInf == [ k |-> "inf", n |-> 1, d |-> 1 ]
NegInf == [ k |-> "inf", n |-> -1, d |-> 1 ]
Undef  == [ k |-> "undefined", n |-> 0, d |-> 1 ]

IsNum(a) == a.k = "num"
\* isNaN(x): undefined converts to NaN
isNaN(a) == a.k \in { "nan", "undefined" }
Sign(a) == IF a.n > 0 THEN 1 ELSE IF a.n < 0 THEN -1 ELSE 0

DAdd(a, b) ==
    IF isNaN(a) \/ isNaN(b) THEN NaN
    ELSE IF IsNum(a) /\ IsNum(b) THEN Rat(a.n * b.d + b.n * a.d, a.d * b.d)
    ELSE IF IsNum(a) THEN b
    ELSE IF IsNum(b) THEN a
    ELSE IF a = b THEN a ELSE NaN

DNeg(a) == IF a.k \in { "num", "inf" } THEN [ a EXCEPT !.n = 0 - a.n ] ELSE NaN

DSub(a, b) == DAdd(a, DNeg(b))

DMul(a, b) ==
    IF isNaN(a) \/ isNaN(b) THEN NaN
    ELSE IF IsNum(a) /\ IsNum(b) THEN Rat(a.n * b.n, a.d * b.d)
    ELSE IF Sign(a) * Sign(b) = 0 THEN NaN
    ELSE IF Sign(a) * Sign(b) > 0 THEN PosInf ELSE NegInf

DDiv(a, b) ==
    IF isNaN(a) \/ isNaN(b) THEN NaN
    ELSE IF IsNum(a) /\ IsNum(b)
         THEN IF b.n # 0 THEN Rat(a.n * b.d, a.d * b.n)
              ELSE IF a.n = 0 THEN NaN
              ELSE IF a.n > 0 THEN PosInf ELSE NegInf
    ELSE IF IsNum(b) THEN (IF Sign(a) * (IF b.n < 0 THEN -1 ELSE 1) > 0 THEN PosInf ELSE NegInf)
    ELSE IF IsNum(a) THEN Num(0)
    ELSE NaN

\* a < b on JavaScript numbers: false whenever an operand is NaN
DLt(a, b) ==
    IF isNaN(a) \/ isNaN(b) THEN FALSE
    ELSE IF IsNum(a) /\ IsNum(b) THEN a.n * b.d < b.n * a.d
    ELSE IF IsNum(a) THEN Sign(b) > 0
    ELSE IF IsNum(b) THEN Sign(a) < 0
    ELSE Sign(a) < Sign(b)

DGt(a, b) == DLt(b, a)
DLe(a, b) == ~isNaN(a) /\ ~isNaN(b) /\ ~DLt(b, a)

\* Number(text): blank is 0, a decimal integer literal is its value, else NaN
Number(s) ==
    IF isBlank(s) THEN Num(0)
    ELSE IF toIntOrNull(s) # Null THEN Num(Val(toIntOrNull(s)))
    ELSE NaN

\* x.toFixed(2), read back as a number: x rounded to hundredths (ties upward)
toFixed2(a) ==
    IF ~IsNum(a) THEN (IF a.k = "inf" THEN a ELSE NaN)
    ELSE Rat((2 * a.n * 100 + a.d) \div (2 * a.d), 100)

\* new Date(text) as a day number; {} is Invalid Date.  The texts of the model are
\* blank or YYYY-MM-DD, which is parsed as UTC midnight of that day
newDate(s) == IF IsIsoDate(s) THEN Some(IsoEpochDay(s)) ELSE Null

----------------------------------------------------------------------------
(* JavaScript: loadFileSync (part_001:48-91) *)

\* csv-parse with columns: true and skip_empty_lines: false raises "Invalid Record
\* Length" on a record whose column count differs from the header's
parseThrows(f) == \E i \in 2..Len(f) : f[i].ncols # f[1].ncols

\* the row is dropped by the funding-year test at part_001:63
jsYearSkips(line) ==
    DLt(Number(line.fyear), Num(2021)) \/ DGt(Number(line.fyear), Num(2023))

\* the row is dropped by the missing-value test at part_001:65-72
jsNaNSkips(line) ==
    \/ isNaN(Number(line.budget))
    \/ isNaN(Number(line.cost))
    \/ \E i \in 1..Len(line.coords) : isNaN(Number(line.coords[i]))

\* the cleaned data object pushed at part_001:75-87
jsRecord(row, line) ==
    [ row                       |-> row,
      FundingYear               |-> Number(line.fyear),
      ApprovedBudgetForContract |-> Number(line.budget),
      ContractCost              |-> Number(line.cost),
      ActualCompletionDate      |-> newDate(line.cdate),
      StartDate                 |-> newDate(line.sdate),
      Region                    |-> line.region,
      Contractor                |-> line.contractor,
      TypeOfWork                |-> line.work ]

\* the loop at part_001:60-88 over the records from line i on
jsClean(f, i) ==
    LET kept == SelectSeq([ k \in 1..(Len(f) - i + 1) |-> k + i - 1 ],
                          LAMBDA k : ~(jsYearSkips(f[k]) \/ jsNaNSkips(f[k])))
    IN  [ n \in 1..Len(kept) |-> jsRecord(kept[n], f[kept[n]]) ]

\* loadFileSync() when neither readFileSync nor parse throws; an empty file has no
\* header and yields no records
loadFileSync(f) == IF f.lines = << >> THEN << >> ELSE jsClean(f.lines, 2)

\* readFileSync throws on an unreadable file, parse on a bad record
loadThrows(f) == ~f.readable \/ (f.lines # << >> /\ parseThrows(f.lines))

----------------------------------------------------------------------------
(* Sequence helpers for the reports *)

\* the distinct values of Key over s, in order of first occurrence (groupBy keys,
\* Set insertion order)
RECURSIVE DistinctSeq(_)
DistinctSeq(s) ==
    IF Len(s) <= 1 THEN s
    ELSE LET front == DistinctSeq(SubSeq(s, 1, Len(s) \div 2))
             back == DistinctSeq(SubSeq(s, Len(s) \div 2 + 1, Len(s)))
         IN  front \o SelectSeq(back, LAMBDA x : x \notin Range(front))

\* a stable sort of s by the strict weak order Before
StableSort(s0, Before(_, _)) ==
    LET sortOf(s) ==
            LET pos(i) == 1 + Cardinality({ j \in 1..Len(s) :
                              Before(s[j], s[i]) \/ (~Before(s[i], s[j]) /\ j < i) })
            IN  [ p \in 1..Len(s) |-> s[CHOOSE i \in 1..Len(s) : pos(i) = p] ]
    IN  Val({ sortOf(s) : s \in { s0 } })

\* List<Int>.sorted()
sorted(s) == StableSort(s, LAMBDA a, b : a < b)

Take(s, n) == SubSeq(s, 1, IF Len(s) < n THEN Len(s) ELSE n)

\* Iterable<Double>.average() over integers: NaN on the empty list
average(s) == IF s = << >> THEN NaN ELSE Rat(SumSeq(s), Len(s))

\* Double.coerceIn(lo, hi)
coerceIn(x, lo, hi) == IF DLt(x, lo) THEN lo ELSE IF DGt(x, hi) THEN hi ELSE x

----------------------------------------------------------------------------
(* Kotlin: median and report 1 (part_000:142-153, 380-440) *)

\* List<Double>.median()
median(list) ==
    IF list = << >> THEN Num(0)
    ELSE LET s == sorted(list)
             size == Len(s)
         IN  IF size % 2 = 1 THEN Num(s[size \div 2 + 1])
             ELSE Rat(s[size \div 2] + s[size \div 2 + 1], 2)

highDelayDays == 30

\* the when-expression at part_000:401-412
efficiencyScore(medianSavings, averageDelay) ==
    IF DLe(averageDelay, Num(0))
    THEN (IF DGt(medianSavings, Num(0)) THEN Num(100) ELSE Num(0))
    ELSE coerceIn(DMul(DDiv(medianSavings, averageDelay), Num(100)), Num(0), Num(100))

delayOf(p) == Val(completionDelayDays(p))

\* the metrics of one (region, mainIsland) group (part_000:385-421)
regionalRow(key, regionalProjects) ==
    LET costSavingsList == MapSeq(regionalProjects, costSavings)
        medianSavings == median(costSavingsList)
        completedProjectsWithDelay ==
            SelectSeq(regionalProjects, LAMBDA p : completionDelayDays(p) # Null)
        averageDelay == average(MapSeq(completedProjectsWithDelay, delayOf))
        highDelayCount ==
            Len(SelectSeq(completedProjectsWithDelay, LAMBDA p : delayOf(p) > highDelayDays))
    IN  [ region          |-> key[1],
          mainIsland      |-> key[2],
          totalbudget     |-> Num(SumSeq(MapSeq(regionalProjects, LAMBDA p : p.approvedBudget))),
          mediansavings   |-> medianSavings,
          avgdelay        |-> averageDelay,
          highdelaypct    |-> IF completedProjectsWithDelay # << >>
                              THEN DMul(Rat(highDelayCount, Len(completedProjectsWithDelay)),
                                        Num(100))
                              ELSE Num(0),
          efficiencyscore |-> efficiencyScore(medianSavings, averageDelay) ]

\* the rows generateRegionalEfficiencyReport writes to report1_regional_summary.csv
generateRegionalEfficiencyReport(projects) ==
    LET withDelay == SelectSeq(projects, LAMBDA p : completionDelayDays(p) # Null)
        keys == DistinctSeq(MapSeq(withDelay, LAMBDA p : << p.region, p.mainIsland >>))
        groupedData ==
            MapSeq(keys, LAMBDA k :
                regionalRow(k, SelectSeq(withDelay,
                                         LAMBDA p : << p.region, p.mainIsland >> = k)))
    IN  StableSort(groupedData, LAMBDA a, b : DGt(a.efficiencyscore, b.efficiencyscore))

----------------------------------------------------------------------------
(* Kotlin: report 2 (part_000:482-540) *)

topN == 15
minProjects == 5
fullDelayDays == 90
highRiskBelow == 50

\* the contractor's group survives the minimum project count (part_000:495)
meetsMinProjects(numProjects) == ~(numProjects < minProjects)

\* the metrics of one contractor group (part_000:489-517)
contractorRow(name, contractorProjects) ==
    LET totalCost == Num(SumSeq(MapSeq(contractorProjects, LAMBDA p : p.contractCost)))
        totalSavings == Num(SumSeq(MapSeq(contractorProjects, costSavings)))
        averageDelay == average(MapSeq(contractorProjects, delayOf))
        delayFactor == DSub(Num(1), coerceIn(DDiv(averageDelay, Num(fullDelayDays)),
                                             Num(0), Num(1)))
        savingsFactor == IF DGt(totalCost, Num(0)) THEN DDiv(totalSavings, totalCost)
                         ELSE Num(0)
        reliabilityIndex == coerceIn(DMul(DMul(delayFactor, savingsFactor), Num(100)),
                                     Num(0), Num(100))
    IN  [ contractor       |-> name,
          totalcost        |-> totalCost,
          numprojects      |-> Len(contractorProjects),
          avgdelay         |-> averageDelay,
          totalsavings     |-> totalSavings,
          reliabilityindex |-> reliabilityIndex,
          riskflag         |-> IF DLt(reliabilityIndex, Num(highRiskBelow))
                               THEN "High Risk" ELSE "Low Risk" ]

\* the rows generateContractorRankingReport writes to report2_contractor_ranking.csv
generateContractorRankingReport(projects) ==
    LET completedProjects == SelectSeq(projects, LAMBDA p : completionDelayDays(p) # Null)
        names == DistinctSeq(MapSeq(completedProjects, LAMBDA p : p.contractorName))
        groupOf(n) == SelectSeq(completedProjects, LAMBDA p : p.contractorName = n)
        kept == SelectSeq(names, LAMBDA n : meetsMinProjects(Len(groupOf(n))))
        groupedData == MapSeq(kept, LAMBDA n : contractorRow(n, groupOf(n)))
        topContractors ==
            Take(StableSort(groupedData, LAMBDA a, b : DGt(a.totalcost, b.totalcost)), topN)
    IN  [ index \in 1..Len(topContractors) |->
            [ rank |-> index ] @@ topContractors[index] ]

----------------------------------------------------------------------------
(* Kotlin: report 3 (part_000:581-646) *)

baselineYear == 2021

\* the yoychange of a (year, typeOfWork) group; baselineAvg is {} when the
\* baseline year has no group of that work type (part_000:612-621)
yoyChange(year, currentAvg, baselineAvg) ==
    IF year > baselineYear /\ baselineAvg # Null /\ Val(baselineAvg) # Num(0)
    THEN DMul(DDiv(DSub(currentAvg, Val(baselineAvg)),
                   IF DLt(Val(baselineAvg), Num(0)) THEN DNeg(Val(baselineAvg))
                   ELSE Val(baselineAvg)), Num(100))
    ELSE Num(0)

\* the rows generateAnnualTrendsReport writes to report3_annual_trends.csv
generateAnnualTrendsReport(projects) ==
    LET withYear == SelectSeq(projects, LAMBDA p : p.fundingYear # Null)
        keyOf(p) == << Val(p.fundingYear), p.typeOfWork >>
        keys == DistinctSeq(MapSeq(withYear, keyOf))
        groupOf(k) == SelectSeq(withYear, LAMBDA p : keyOf(p) = k)
        avgOf(k) == average(MapSeq(groupOf(k), costSavings))
        yearBaselines(w) ==
            IF << baselineYear, w >> \in Range(keys)
            THEN Some(avgOf(<< baselineYear, w >>)) ELSE Null
        rowOf(k) ==
            LET workProjects == groupOf(k)
                totalProjects == Len(workProjects)
                overrunCount == Len(SelectSeq(workProjects, LAMBDA p : costSavings(p) < 0))
            IN  [ fundingyear   |-> k[1],
                  typeofwork    |-> k[2],
                  totalprojects |-> totalProjects,
                  avgsavings    |-> avgOf(k),
                  overrunrate   |-> DMul(Rat(overrunCount, totalProjects), Num(100)),
                  yoychange     |-> yoyChange(k[1], avgOf(k), yearBaselines(k[2])) ]
    IN  StableSort(MapSeq(keys, rowOf), LAMBDA a, b :
            a.fundingyear < b.fundingyear
              \/ (a.fundingyear = b.fundingyear /\ DGt(a.avgsavings, b.avgsavings)))

----------------------------------------------------------------------------
(* Kotlin: summary (part_000:685-705) *)

generateSummaryJson(all, filtered) ==
    LET completedProjects == SelectSeq(filtered, LAMBDA p : completionDelayDays(p) # Null)
    IN  [ total_projects_read      |-> Len(all),
          total_projects_analyzed  |-> Len(filtered),
          total_unique_contractors |->
              Cardinality(Range(MapSeq(filtered, LAMBDA p : p.contractorName))),
          total_unique_regions     |->
              Cardinality(Range(MapSeq(filtered, LAMBDA p : p.region))),
          global_avg_delay         |-> average(MapSeq(completedProjects, delayOf)),
          total_savings_analyzed   |-> Num(SumSeq(MapSeq(filtered, costSavings))) ]

----------------------------------------------------------------------------
(* JavaScript: derived values and helpers (part_001:104-124) *)

generateCostSavings(ApprovedBudgetForContract, ContractCost) ==
    DSub(ApprovedBudgetForContract, ContractCost)

\* Math.round((aDate - sDate) / msPerDay): NaN when a date is Invalid Date
generateCompletionDelayDays(sDate, aDate) ==
    IF sDate = Null \/ aDate = Null THEN NaN ELSE Num(Val(aDate) - Val(sDate))

\* dataSet[i] with a 0-based index: undefined outside the array
At(dataSet, i) == IF i + 1 \in 1..Len(dataSet) THEN dataSet[i + 1] ELSE Undef

RECURSIVE DSum(_)
DSum(s) ==
    IF s = << >> THEN Num(0)
    ELSE IF Len(s) = 1 THEN DAdd(Num(0), s[1])
    ELSE DAdd(DSum(SubSeq(s, 1, Len(s) \div 2)), DSum(SubSeq(s, Len(s) \div 2 + 1, Len(s))))

AverageDelayDays(dataSet) == DDiv(DSum(dataSet), Num(Len(dataSet)))

\* Array.prototype.sort with a comparator, Gt(a, b) being  compare(a, b) > 0  (a
\* comparator result of NaN counts as 0): insertion into the sorted prefix, which is
\* the stable sort for every consistent comparator
JsSort(s0, Gt(_, _)) ==
    LET insert(done, x) ==
            LET stay == { j \in 1..Len(done) : ~Gt(done[j], x) }
                at == IF stay = {} THEN 0 ELSE CHOOSE j \in stay : \A i \in stay : i <= j
            IN  SubSeq(done, 1, at) \o << x >> \o SubSeq(done, at + 1, Len(done))
        sortOf(s) ==
            LET f[i \in 0..Len(s)] ==
                    IF i = 0 THEN << >>
                    ELSE Val({ insert(done, s[i]) : done \in { f[i - 1] } })
            IN  f[Len(s)]
    IN  Val({ sortOf(s) : s \in { s0 } })

\* String.prototype.localeCompare on the names of the model, as a rank
localeRank(name) ==
    CASE name = "" -> 0
      [] name = "A" -> 1
      [] name = "B" -> 2
      [] name = "Region I" -> 3
      [] name = "Region VI" -> 4
      [] OTHER -> 5

----------------------------------------------------------------------------
(* JavaScript: report 1 (part_001:131-256) *)

\* costSavingsMedian (part_001:229-238)
costSavingsMedian(dataSet) ==
    LET dataSize == Len(dataSet)
    IN  IF dataSize % 2 = 0
        THEN DDiv(DAdd(At(dataSet, dataSize \div 2), At(dataSet, dataSize \div 2 + 1)),
                  Num(2))
        ELSE At(dataSet, dataSize \div 2)

\* PercentageDelay (part_001:241-251)
PercentageDelay(dataSet) ==
    LET counter == Len(SelectSeq(dataSet, LAMBDA x : DGt(x, Num(highDelayDays))))
    IN  DMul(DDiv(Num(counter), Num(Len(dataSet))), Num(100))

\* EfficiencyScore (part_001:253-255)
EfficiencyScore(medianCostSavings, AverageDelay) ==
    DMul(DDiv(medianCostSavings, AverageDelay), Num(100))

\* the rows report1() saves to report1_regional_summary.csv
report1(recs) ==
    LET template0 ==
            StableSort(
                MapSeq(recs, LAMBDA r :
                    [ Region |-> r.Region,
                      ApprovedBudgetForContract |-> r.ApprovedBudgetForContract,
                      ContractCost |-> r.ContractCost,
                      CostSavings |-> generateCostSavings(r.ApprovedBudgetForContract,
                                                          r.ContractCost),
                      CompletionDelayDays |-> generateCompletionDelayDays(
                                                  r.StartDate, r.ActualCompletionDate) ]),
                LAMBDA a, b :
                    localeRank(a.Region) < localeRank(b.Region)
                      \/ (a.Region = b.Region /\ DGt(a.CostSavings, b.CostSavings)))
        uniqueRegions == DistinctSeq(MapSeq(recs, LAMBDA r : r.Region))
        rowOf(template, region) ==
            LET ofRegion == SelectSeq(template, LAMBDA d : d.Region = region)
                grouped == MapSeq(ofRegion, LAMBDA d : d.CostSavings)
                delayDays == MapSeq(ofRegion, LAMBDA d : d.CompletionDelayDays)
                last == ofRegion[Len(ofRegion)]
                med == toFixed2(costSavingsMedian(grouped))
                avg == toFixed2(AverageDelayDays(delayDays))
            IN  [ Region |-> region,
                  \* `sum` is reset for every row of the template (part_001:169-176)
                  TotalApprovedBudget |-> toFixed2(last.ApprovedBudgetForContract),
                  MedianCostSavings |-> med,
                  AverageCompletionDelayDays |-> avg,
                  PercentageDelay |-> toFixed2(PercentageDelay(delayDays)),
                  EfficiencyScore |-> toFixed2(EfficiencyScore(med, avg)) ]
        rows == Val({ MapSeq(uniqueRegions, LAMBDA region : rowOf(template, region)) :
                      template \in { template0 } })
    IN  JsSort(rows,
               LAMBDA a, b : DGt(DSub(b.EfficiencyScore, a.EfficiencyScore), Num(0)))

----------------------------------------------------------------------------
(* JavaScript: report 2 (part_001:259-372) *)

\* the row is removed at part_001:303-307
jsTooFewProjects(TotalProjects) == TotalProjects <= minProjects

report2(recs) ==
    LET uniqueContractors == DistinctSeq(MapSeq(recs, LAMBDA r : r.Contractor))
        ofContractor(c) == SelectSeq(recs, LAMBDA r : r.Contractor = c)
        kept == SelectSeq(uniqueContractors,
                          LAMBDA c : ~jsTooFewProjects(Len(ofContractor(c))))
        rowOf(c) ==
            LET group == ofContractor(c)
                cost == toFixed2(DSum(MapSeq(group, LAMBDA r : r.ContractCost)))
                avg == toFixed2(AverageDelayDays(MapSeq(group, LAMBDA r :
                           generateCompletionDelayDays(r.StartDate, r.ActualCompletionDate))))
                savings == toFixed2(DSum(MapSeq(group, LAMBDA r :
                           generateCostSavings(r.ApprovedBudgetForContract, r.ContractCost))))
                reliabilityIndex ==
                    DMul(DMul(DSub(Num(1), DDiv(avg, Num(fullDelayDays))),
                              DDiv(savings, cost)), Num(100))
            IN  [ Contractor |-> c,
                  TotalProjects |-> Len(group),
                  ContractCost |-> cost,
                  AverageCompletionDelayDays |-> avg,
                  TotalCostSavings |-> savings,
                  ReliabilityIndex |-> IF DGt(reliabilityIndex, Num(100)) THEN Num(100)
                                       ELSE reliabilityIndex,
                  Flag |-> IF DLt(reliabilityIndex, Num(highRiskBelow))
                           THEN "High Risk" ELSE "Low Risk" ]
    IN  Take(JsSort(MapSeq(kept, rowOf),
                    LAMBDA a, b : DGt(DSub(b.ContractCost, a.ContractCost), Num(0))),
             topN)

----------------------------------------------------------------------------
(* JavaScript: report 3 (part_001:374-448) *)

\* a !== b on numbers
StrictNe(a, b) == isNaN(a) \/ isNaN(b) \/ a # b

\* the YoYChange property of an entry, given the baseline entries (part_001:421-427)
jsYoYChange(entry, baseline) ==
    LET found == { i \in 1..Len(baseline) : baseline[i].TypeOfWork = entry.TypeOfWork }
    IN  IF found = {} THEN Undef
        ELSE LET base == baseline[CHOOSE i \in found : \A j \in found : i <= j]
             IN  IF StrictNe(base.AverageCostSavings, Num(0))
                 THEN DMul(DDiv(DSub(entry.AverageCostSavings, base.AverageCostSavings),
                                IF DLt(base.AverageCostSavings, Num(0))
                                THEN DNeg(base.AverageCostSavings)
                                ELSE base.AverageCostSavings), Num(100))
                 ELSE Undef

report3(recs) ==
    LET keyOf(r) == << r.FundingYear, r.TypeOfWork >>
        keys == DistinctSeq(MapSeq(recs, keyOf))
        listOf(k) == MapSeq(SelectSeq(recs, LAMBDA r : keyOf(r) = k), LAMBDA r :
                         generateCostSavings(r.ApprovedBudgetForContract, r.ContractCost))
        metrics(k) ==
            LET totalProjects == Len(listOf(k))
                overrunCount == Len(SelectSeq(listOf(k), LAMBDA n : DLt(n, Num(0))))
            IN  [ FundingYear |-> k[1],
                  TypeOfWork |-> k[2],
                  TotalProjects |-> totalProjects,
                  AverageCostSavings |-> DDiv(DSum(listOf(k)), Num(totalProjects)),
                  OverrunRate |-> DMul(DDiv(Num(overrunCount), Num(totalProjects)),
                                       Num(100)) ]
        entries == MapSeq(keys, metrics)
        baseline == SelectSeq(entries, LAMBDA r : r.FundingYear = Num(baselineYear))
        withYoY == MapSeq(entries, LAMBDA e :
                       [ YoYChange |-> jsYoYChange(e, baseline) ] @@ e)
        ordered ==
            JsSort(withYoY, LAMBDA a, b :
                IF StrictNe(a.FundingYear, b.FundingYear)
                THEN DGt(DSub(a.FundingYear, b.FundingYear), Num(0))
                ELSE DGt(DSub(b.AverageCostSavings, a.AverageCostSavings), Num(0)))
    IN  MapSeq(ordered, LAMBDA d :
            [ d EXCEPT !.AverageCostSavings = toFixed2(@),
                       !.OverrunRate = toFixed2(@),
                       !.YoYChange = IF isNaN(@) THEN @ ELSE toFixed2(@) ])

----------------------------------------------------------------------------
(* JavaScript: summary (part_001:450-483); totalProvinces is left out, the    *)
(* Province column not being part of the model's lines                       *)

generateSummary(recs) ==
    LET totalProjects == Len(recs)
    IN  [ totalProjects    |-> totalProjects,
          totalContractors |-> Cardinality(Range(MapSeq(recs, LAMBDA r : r.Contractor))),
          \* no record has an AverageCompletionDelayDays property: every term is 0
          averageDelayDays |-> toFixed2(DDiv(Num(0), Num(totalProjects))),
          totalCostSavings |-> toFixed2(DSum(MapSeq(recs, LAMBDA r :
              generateCostSavings(r.ApprovedBudgetForContract, r.ContractCost)))) ]

----------------------------------------------------------------------------
(* Kotlin: the menu loop of main() (part_000:709-781) *)

NotWritten == {}

NoMemo == [ r \in {} |-> Null ]

\* fresh FloodProject objects: no lazy delegate has been evaluated yet
freshMemo(projects) == [ r \in { p.row : p \in Range(projects) } |-> Null ]

\* the delegates after every project of `projects` has had costSavings read
readCostSavings(memo, projects) ==
    [ r \in DOMAIN memo |->
        IF memo[r] = Null /\ \E p \in Range(projects) : p.row = r
        THEN Some(costSavings(CHOOSE p \in Range(projects) : p.row = r))
        ELSE memo[r] ]

rdIdle == /\ pc' = "menu"
          /\ rdPos' = 0
          /\ rdProjects' = << >>
          /\ rdLinesReadCount' = 0
          /\ rdErrorRowCount' = 0

ktStoreResultMutant(projects, rowsRead, errors) ==
    /\ allProjects' = allProjects \o projects
    /\ totalRowsRead' = totalRowsRead + rowsRead
    /\ errorRowCount' = errorRowCount + errors
    /\ filteredProjects' = filterProjectsByYear(allProjects \o projects, analysisStartYear,
                                                analysisEndYear)
    /\ lazyCostSavings' = freshMemo(projects)
\* main() stores the IngestionResult and filters it (part_000:744-751)
ktStoreResult(projects, rowsRead, errors) ==
    /\ allProjects' = projects
    /\ totalRowsRead' = rowsRead
    /\ errorRowCount' = errors
    /\ filteredProjects' = filterProjectsByYear(projects, analysisStartYear, analysisEndYear)
    /\ lazyCostSavings' = freshMemo(projects)

\* choice 1: readProjectsFromFile up to the start of its loop (part_000:197-228)
KtLoad ==
    /\ lang = "kotlin" /\ isRunning /\ pc = "menu"
    /\ UNCHANGED rVars
    /\ UNCHANGED v1Vars
    /\ IF ~file.readable
       THEN /\ ktStoreResult(<< >>, 0, 0)
            /\ rdIdle
            /\ console' = << "Error reading file", "Data Ingestion Complete" >>
       ELSE IF Len(file.lines) <= 1
       THEN /\ ktStoreResult(<< >>, 0, 0)
            /\ rdIdle
            /\ console' = << "Data Ingestion Complete" >>
       ELSE /\ pc' = "reading"
            /\ rdPos' = 2
            /\ rdProjects' = << >>
            /\ rdLinesReadCount' = Len(file.lines) - 1
            /\ rdErrorRowCount' = 0
            /\ console' = << >>
            /\ UNCHANGED << allProjects, totalRowsRead, errorRowCount, filteredProjects,
                            lazyCostSavings >>
    /\ UNCHANGED << lang, file, isRunning, ktReport1, ktReport2, ktReport3, ktSummary >>
    /\ UNCHANGED jsVars

\* one iteration of the loop over the lines (part_000:230-291); the iteration over
\* the last line also returns the result to main()
KtReadLine ==
    /\ lang = "kotlin" /\ pc = "reading"
    /\ UNCHANGED rVars
    /\ UNCHANGED v1Vars
    /\ LET line == file.lines[rdPos]
           outcome == lineOutcome(line)
           projects == IF outcome = "accept"
                       THEN Append(rdProjects,
                                   FloodProject(rdPos, line, amountOf(line.budget),
                                                amountOf(line.cost)))
                       ELSE rdProjects
           errors == IF isErrorRow(outcome) THEN rdErrorRowCount + 1 ELSE rdErrorRowCount
       IN  IF rdPos < Len(file.lines)
           THEN /\ rdPos' = rdPos + 1
                /\ rdProjects' = projects
                /\ rdErrorRowCount' = errors
                /\ UNCHANGED << pc, rdLinesReadCount, allProjects, totalRowsRead,
                                errorRowCount, filteredProjects, lazyCostSavings, console >>
           ELSE /\ ktStoreResult(projects, rdLinesReadCount, errors)
                /\ rdIdle
                /\ console' = << "Data Ingestion Complete" >>
    /\ UNCHANGED << lang, file, isRunning, ktReport1, ktReport2, ktReport3, ktSummary >>
    /\ UNCHANGED jsVars

KtGenerateMutant ==
    /\ lang = "kotlin" /\ isRunning /\ pc = "menu"
    /\ UNCHANGED rVars
    /\ UNCHANGED v1Vars
    /\ IF allProjects = << >>
       THEN /\ console' = << "Error: No data loaded" >>
            /\ UNCHANGED << allProjects, filteredProjects, lazyCostSavings, ktReport1, ktReport2,
                            ktReport3, ktSummary >>
       ELSE LET filtered == filterProjectsByYear(allProjects, analysisStartYear,
                                                 analysisEndYear)
            IN  /\ filteredProjects' = filtered
                /\ allProjects' = filtered
                /\ ktReport1' = Some(generateRegionalEfficiencyReport(filtered))
                /\ ktReport2' = Some(generateContractorRankingReport(filtered))
                /\ ktReport3' = Some(generateAnnualTrendsReport(filtered))
                /\ ktSummary' = Some(generateSummaryJson(allProjects, filtered))
                /\ lazyCostSavings' = readCostSavings(lazyCostSavings, filtered)
                /\ console' = << "All Reports Generated and Saved" >>
    /\ UNCHANGED << lang, file, totalRowsRead, errorRowCount, isRunning,
                    pc, rdPos, rdProjects, rdLinesReadCount, rdErrorRowCount >>
    /\ UNCHANGED jsVars
\* choice 2: analyze and generate reports (part_000:753-770)
KtGenerate ==
    /\ lang = "kotlin" /\ isRunning /\ pc = "menu"
    /\ UNCHANGED rVars
    /\ UNCHANGED v1Vars
    /\ IF allProjects = << >>
       THEN /\ console' = << "Error: No data loaded" >>
            /\ UNCHANGED << filteredProjects, lazyCostSavings, ktReport1, ktReport2,
                            ktReport3, ktSummary >>
       ELSE LET filtered == filterProjectsByYear(allProjects, analysisStartYear,
                                                 analysisEndYear)
            IN  /\ filteredProjects' = filtered
                /\ ktReport1' = Some(generateRegionalEfficiencyReport(filtered))
                /\ ktReport2' = Some(generateContractorRankingReport(filtered))
                /\ ktReport3' = Some(generateAnnualTrendsReport(filtered))
                /\ ktSummary' = Some(generateSummaryJson(allProjects, filtered))
                /\ lazyCostSavings' = readCostSavings(lazyCostSavings, filtered)
                /\ console' = << "All Reports Generated and Saved" >>
    /\ UNCHANGED << lang, file, allProjects, totalRowsRead, errorRowCount, isRunning,
                    pc, rdPos, rdProjects, rdLinesReadCount, rdErrorRowCount >>
    /\ UNCHANGED jsVars

\* choice 3: exit
KtExit ==
    /\ lang = "kotlin" /\ isRunning /\ pc = "menu"
    /\ UNCHANGED rVars
    /\ UNCHANGED v1Vars
    /\ isRunning' = FALSE
    /\ console' = << "Exiting program. Goodbye." >>
    /\ UNCHANGED << lang, file, allProjects, totalRowsRead, errorRowCount, filteredProjects,
                    pc, rdPos, rdProjects, rdLinesReadCount, rdErrorRowCount,
                    lazyCostSavings, ktReport1, ktReport2, ktReport3, ktSummary >>
    /\ UNCHANGED jsVars

----------------------------------------------------------------------------
(* JavaScript: the menu loop (part_001:491-535) *)

\* choice "1": load the file
JsLoad ==
    /\ lang = "js" /\ running /\ pc = "menu"
    /\ UNCHANGED rVars
    /\ UNCHANGED v1Vars
    /\ IF FileLoaded
       THEN /\ console' = << "File already loaded." >>
            /\ UNCHANGED << pc, records, FileLoaded >>
       ELSE IF loadThrows(file)
       THEN \* the exception is caught nowhere: the process ends
            /\ pc' = "crashed"
            /\ console' = << "Loading file...", "uncaught exception" >>
            /\ UNCHANGED << records, FileLoaded >>
       ELSE /\ records' = loadFileSync(file)
            /\ FileLoaded' = TRUE
            /\ console' = << "Loading file...", "File successfully loaded." >>
            /\ UNCHANGED pc
    /\ UNCHANGED << lang, file, running, jsReport1, jsReport2, jsReport3, jsSummary >>
    /\ UNCHANGED << allProjects, totalRowsRead, errorRowCount, filteredProjects, isRunning,
                    rdPos, rdProjects, rdLinesReadCount, rdErrorRowCount,
                    lazyCostSavings, ktReport1, ktReport2, ktReport3, ktSummary >>

\* choice "2": generate the reports
JsGenerate ==
    /\ lang = "js" /\ running /\ pc = "menu"
    /\ UNCHANGED rVars
    /\ UNCHANGED v1Vars
    /\ IF ~FileLoaded \/ Len(records) = 0
       THEN /\ console' = << "No file loaded yet." >>
            /\ UNCHANGED << jsReport1, jsReport2, jsReport3, jsSummary >>
       ELSE /\ jsReport1' = Some(report1(records))
            /\ jsReport2' = Some(report2(records))
            /\ jsReport3' = Some(report3(records))
            /\ jsSummary' = Some(generateSummary(records))
            /\ console' = << "summary.json generated!" >>
    /\ UNCHANGED << lang, file, pc, running, FileLoaded, records >>
    /\ UNCHANGED << allProjects, totalRowsRead, errorRowCount, filteredProjects, isRunning,
                    rdPos, rdProjects, rdLinesReadCount, rdErrorRowCount,
                    lazyCostSavings, ktReport1, ktReport2, ktReport3, ktSummary >>

\* choice "3": exit
JsExit ==
    /\ lang = "js" /\ running /\ pc = "menu"
    /\ UNCHANGED rVars
    /\ UNCHANGED v1Vars
    /\ running' = FALSE
    /\ console' = << "Exiting program..." >>
    /\ UNCHANGED << lang, file, pc, FileLoaded, records, jsReport1, jsReport2, jsReport3,
                    jsSummary >>
    /\ UNCHANGED << allProjects, totalRowsRead, errorRowCount, filteredProjects, isRunning,
                    rdPos, rdProjects, rdLinesReadCount, rdErrorRowCount,
                    lazyCostSavings, ktReport1, ktReport2, ktReport3, ktSummary >>

\* any other choice: the default branch (part_001:529-531)
JsInvalid ==
    /\ lang = "js" /\ running /\ pc = "menu"
    /\ UNCHANGED rVars
    /\ UNCHANGED v1Vars
    /\ console' = << "Invalid choice." >>
    /\ UNCHANGED << lang, file, pc, running, FileLoaded, records, jsReport1, jsReport2,
                    jsReport3, jsSummary >>
    /\ UNCHANGED << allProjects, totalRowsRead, errorRowCount, filteredProjects, isRunning,
                    rdPos, rdProjects, rdLinesReadCount, rdErrorRowCount,
                    lazyCostSavings, ktReport1, ktReport2, ktReport3, ktSummary >>

----------------------------------------------------------------------------
(* R: report 2 of generate_reports() (part_000:869-885), from the summarised
   group of one contractor on.  The rows of flood_clean have both dates and
   numeric amounts (part_000:801-831), so the sums and the mean are numbers. *)

NoGroup == [ Contractor |-> "", ProjectCount |-> 0, TotalContractCost |-> Num(0),
             AvgDelay |-> Num(0), TotalSavings |-> Num(0) ]

\* the summarised groups the sessions of the R program start from
RGroups ==
    { [ Contractor |-> "A", ProjectCount |-> c, TotalContractCost |-> Num(t),
        AvgDelay |-> Num(a), TotalSavings |-> Num(v) ] :
        c \in { 4, 5, 6 }, t \in { 0, 10, 20, 40 }, a \in { 0 - 5, 0, 45, 90, 120 },
        v \in { 0 - 10, 0, 5, 10, 20, 50 } }

\* pmin(100, x): a missing x stays missing
pmin100(x) == IF isNaN(x) THEN NaN ELSE IF DGt(x, Num(100)) THEN Num(100) ELSE x

rReliabilityIndex(g) ==
    pmin100(DMul(DMul(DSub(Num(1), DDiv(g.AvgDelay, Num(90))),
                      DDiv(g.TotalSavings, g.TotalContractCost)), Num(100)))

\* ifelse(ReliabilityIndex < 50, "High Risk", "OK"): NA where the test is NA
rRiskFlag(index) ==
    IF isNaN(index) THEN "NA" ELSE IF DLt(index, Num(50)) THEN "High Risk" ELSE "OK"

rContractorRanking(g) ==
    IF g.ProjectCount >= 5
    THEN << [ Contractor |-> g.Contractor, ProjectCount |-> g.ProjectCount,
              TotalContractCost |-> g.TotalContractCost, AvgDelay |-> g.AvgDelay,
              TotalSavings |-> g.TotalSavings,
              ReliabilityIndex |-> rReliabilityIndex(g),
              RiskFlag |-> rRiskFlag(rReliabilityIndex(g)) ] >>
    ELSE << >>

\* filter, mutate, arrange, slice_head and write_csv of report 2
RGenerate ==
    /\ lang = "r" /\ rReport2 = NotWritten
    /\ rReport2' = Some(rContractorRanking(rSummarised))
    /\ UNCHANGED << lang, file, allProjects, totalRowsRead, errorRowCount, filteredProjects,
                    isRunning, pc, rdPos, rdProjects, rdLinesReadCount, rdErrorRowCount,
                    lazyCostSavings, ktReport1, ktReport2, ktReport3, ktSummary,
                    console, rSummarised >>
    /\ UNCHANGED jsVars
    /\ UNCHANGED v1Vars

----------------------------------------------------------------------------
(* Kotlin, first version: readProjectsFromFile and main (part_000:28-112) *)

\* FloodProject(...) as built at part_000:78-86; row stands for the object's identity
FloodProjectV1(row, line) ==
    [ row            |-> row,
      \* toDoubleOrNull() ?: 0.0, the commas still in the text (part_000:74-75)
      approvedBudget |-> IF toDoubleOrNull(line.budget) = Null THEN 0
                         ELSE Val(toDoubleOrNull(line.budget)),
      contractCost   |-> IF toDoubleOrNull(line.cost) = Null THEN 0
                         ELSE Val(toDoubleOrNull(line.cost)),
      startDate      |-> toDateOrNull(line.sdate),
      completionDate |-> toDateOrNull(line.cdate) ]

\* the loop at part_000:62-91: blank lines and lines of fewer than 17 columns are
\* passed over by `continue`; the function has no local but `projects`
readProjectsFromFileV1(f) ==
    IF ~f.readable \/ Len(f.lines) <= 1 THEN << >>
    ELSE LET kept == SelectSeq([ k \in 1..(Len(f.lines) - 1) |-> k + 1 ],
                               LAMBDA k : f.lines[k].ncols >= 17)
         IN  [ n \in 1..Len(kept) |-> FloodProjectV1(kept[n], f.lines[kept[n]]) ]

\* main() (part_000:96-112): read the file, print the number of projects
V1Main ==
    /\ lang = "kotlin1" /\ v1Result = Null
    /\ v1Result' = Some([ projects |-> readProjectsFromFileV1(file) ])
    /\ console' = << "Data Ingestion Complete", "Total projects read" >>
    /\ UNCHANGED << lang, file, allProjects, totalRowsRead, errorRowCount, filteredProjects,
                    isRunning, pc, rdPos, rdProjects, rdLinesReadCount, rdErrorRowCount,
                    lazyCostSavings, ktReport1, ktReport2, ktReport3, ktSummary >>
    /\ UNCHANGED jsVars
    /\ UNCHANGED rVars

----------------------------------------------------------------------------
(* The sessions *)

Init ==
    /\ \/ /\ lang \in { "kotlin", "js", "kotlin1" }
          /\ file \in Files
          /\ rSummarised = NoGroup
       \/ /\ lang = "r"
          /\ file = Readable(<< >>)
          /\ rSummarised \in RGroups
    /\ rReport2 = NotWritten
    /\ v1Result = Null
    /\ allProjects = << >>
    /\ totalRowsRead = 0
    /\ errorRowCount = 0
    /\ filteredProjects = << >>
    /\ isRunning = TRUE
    /\ pc = "menu"
    /\ rdPos = 0
    /\ rdProjects = << >>
    /\ rdLinesReadCount = 0
    /\ rdErrorRowCount = 0
    /\ lazyCostSavings = NoMemo
    /\ ktReport1 = NotWritten
    /\ ktReport2 = NotWritten
    /\ ktReport3 = NotWritten
    /\ ktSummary = NotWritten
    /\ running = TRUE
    /\ FileLoaded = FALSE
    /\ records = << >>
    /\ jsReport1 = NotWritten
    /\ jsReport2 = NotWritten
    /\ jsReport3 = NotWritten
    /\ jsSummary = NotWritten
    /\ console = << >>

Next ==
    \/ KtLoad
    \/ KtReadLine
    \/ KtGenerate
    \/ KtExit
    \/ JsLoad
    \/ JsGenerate
    \/ JsExit
    \/ JsInvalid
    \/ RGenerate
    \/ V1Main

Spec == Init /\ [][Next]_vars

----------------------------------------------------------------------------
(* Reference notions used to state the properties *)

\* the text of a monetary column is a number once its thousands separators are
\* removed: an optional sign and at least one digit
ParsesAsAmount(text) ==
    LET u == SelectSeq(text, LAMBDA c : c # ",")
    IN  IsDigits(u) \/ (Len(u) > 1 /\ u[1] \in { "-", "+" } /\ IsDigits(Tail(u)))

MoneyParses(line) == ParsesAsAmount(line.budget) /\ ParsesAsAmount(line.cost)

\* the number of blank lines among lines lo..hi of the file
BlankCount(lo, hi) == Cardinality({ i \in lo..hi : file.lines[i].ncols = 0 })

\* the funding-year text is a year within the analysis range
YearTextInRange(text) ==
    IsDigits(text) /\ DigitsVal(text) >= 2021 /\ DigitsVal(text) <= 2023

\* a load of the Kotlin program has returned rows
KtLoaded == lang = "kotlin" /\ pc = "menu" /\ totalRowsRead > 0

----------------------------------------------------------------------------
(* C1 *)

\* C1: a row whose approvedBudget or contractCost text is not a number (descriptive
\* text, or blank) is never in an accepted record set, in neither program; in
\* particular it is never accepted with the amount defaulted to 0.
C1_UnparseableMoneyNeverAccepted ==
    /\ \A p \in Range(allProjects) \cup Range(rdProjects) : MoneyParses(file.lines[p.row])
    /\ \A r \in Range(records) : MoneyParses(file.lines[r.row])

\* C1, Kotlin program alone: such rows are never accepted, and after a load the error
\* counter is the number of non-blank rows that are short or carry such an amount.
C1_KotlinRejectsUnparseableMoney ==
    lang = "kotlin" =>
      /\ \A p \in Range(allProjects) \cup Range(rdProjects) : MoneyParses(file.lines[p.row])
      /\ KtLoaded =>
           errorRowCount = Cardinality({ i \in 2..Len(file.lines) :
                               /\ file.lines[i].ncols # 0
                               /\ (file.lines[i].ncols < minColumns
                                     \/ ~MoneyParses(file.lines[i])) })

----------------------------------------------------------------------------
(* C2 *)

----------------------------------------------------------------------------
(* C3 *)

\* C3: every record in a year-filtered set (the Kotlin filteredProjects, the
\* JavaScript records, which loadFileSync filters) comes from a row whose funding
\* year is present and within 2021..2023, and the Kotlin filter retains every
\* accepted record of such a row.
C3_FilteredYearsInRange ==
    /\ \A p \in Range(filteredProjects) : YearTextInRange(file.lines[p.row].fyear)
    /\ (lang = "kotlin" /\ pc = "menu") =>
         \A p \in Range(allProjects) :
            YearTextInRange(file.lines[p.row].fyear) => p \in Range(filteredProjects)
    /\ \A r \in Range(records) : YearTextInRange(file.lines[r.row].fyear)

\* C3, Kotlin program alone.
C3_KotlinFilteredYearsInRange ==
    /\ \A p \in Range(filteredProjects) : YearTextInRange(file.lines[p.row].fyear)
    /\ (lang = "kotlin" /\ pc = "menu") =>
         \A p \in Range(allProjects) :
            YearTextInRange(file.lines[p.row].fyear) => p \in Range(filteredProjects)

----------------------------------------------------------------------------
(* C4 *)

\* the k-th smallest element of a non-empty sequence of integers
Kth(s, k) ==
    CHOOSE v \in Range(s) :
        /\ Cardinality({ i \in 1..Len(s) : s[i] < v }) < k
        /\ k <= Cardinality({ i \in 1..Len(s) : s[i] <= v })

\* the median as the specification defines it
RefMedian(s) ==
    IF s = << >> THEN Num(0)
    ELSE IF Len(s) % 2 = 1 THEN Num(Kth(s, (Len(s) + 1) \div 2))
    ELSE Rat(Kth(s, Len(s) \div 2) + Kth(s, Len(s) \div 2 + 1), 2)

\* the cost savings of the records that make up a region group of either report 1
KtRegionSavings(row) ==
    MapSeq(SelectSeq(filteredProjects, LAMBDA p :
               /\ p.startDate # Null /\ p.completionDate # Null
               /\ p.region = row.region /\ p.mainIsland = row.mainIsland),
           LAMBDA p : p.approvedBudget - p.contractCost)

JsRegionSavings(row) ==
    MapSeq(SelectSeq(records, LAMBDA r : r.Region = row.Region),
           LAMBDA r : r.ApprovedBudgetForContract.n - r.ContractCost.n)

\* C4: the median savings of every region row of report 1, in both programs, is the
\* middle element of the ascending-sorted savings of its group (odd count), the
\* average of the two middle elements (even count), or 0 (empty group).
C4_MedianOfSortedSavings ==
    /\ ktReport1 # NotWritten =>
         \A i \in 1..Len(Val(ktReport1)) :
            Val(ktReport1)[i].mediansavings = RefMedian(KtRegionSavings(Val(ktReport1)[i]))
    /\ jsReport1 # NotWritten =>
         \A i \in 1..Len(Val(jsReport1)) :
            Val(jsReport1)[i].MedianCostSavings
              = toFixed2(RefMedian(JsRegionSavings(Val(jsReport1)[i])))

\* C4, Kotlin program alone.
C4_KotlinMedianOfSortedSavings ==
    ktReport1 # NotWritten =>
       \A i \in 1..Len(Val(ktReport1)) :
          Val(ktReport1)[i].mediansavings = RefMedian(KtRegionSavings(Val(ktReport1)[i]))

----------------------------------------------------------------------------
(* C5 *)

\* the efficiency score as the specification defines it
RefScore(med, avg) ==
    IF DLe(avg, Num(0)) THEN (IF DGt(med, Num(0)) THEN Num(100) ELSE Num(0))
    ELSE LET raw == DMul(DDiv(med, avg), Num(100))
         IN  IF DLt(raw, Num(0)) THEN Num(0)
             ELSE IF DGt(raw, Num(100)) THEN Num(100) ELSE raw

InScoreRange(x) == IsNum(x) /\ DLe(Num(0), x) /\ DLe(x, Num(100))

\* C5: in both programs every region row with a numeric median and average delay has
\* efficiencyScore = 100 when averageDelay <= 0 and medianSavings > 0, 0 when
\* averageDelay <= 0 and medianSavings <= 0, and otherwise
\* (medianSavings / averageDelay) * 100 clamped to [0, 100]; the score is a number
\* in [0, 100].
C5_EfficiencyScoreFormula ==
    /\ ktReport1 # NotWritten =>
         \A i \in 1..Len(Val(ktReport1)) :
            LET row == Val(ktReport1)[i]
            IN  /\ row.efficiencyscore = RefScore(row.mediansavings, row.avgdelay)
                /\ InScoreRange(row.efficiencyscore)
    /\ jsReport1 # NotWritten =>
         \A i \in 1..Len(Val(jsReport1)) :
            LET row == Val(jsReport1)[i]
            IN  (IsNum(row.MedianCostSavings) /\ IsNum(row.AverageCompletionDelayDays)) =>
                  /\ row.EfficiencyScore
                       = toFixed2(RefScore(row.MedianCostSavings,
                                           row.AverageCompletionDelayDays))
                  /\ InScoreRange(row.EfficiencyScore)

\* C5, Kotlin program alone.
C5_KotlinEfficiencyScoreFormula ==
    ktReport1 # NotWritten =>
       \A i \in 1..Len(Val(ktReport1)) :
          LET row == Val(ktReport1)[i]
          IN  /\ row.efficiencyscore = RefScore(row.mediansavings, row.avgdelay)
              /\ InScoreRange(row.efficiencyscore)

----------------------------------------------------------------------------
(* C6 *)

\* contractors with at least n filtered projects that have both dates
KtContractorsWith(n) ==
    { c \in { p.contractorName : p \in Range(filteredProjects) } :
        Len(SelectSeq(filteredProjects, LAMBDA p :
              p.contractorName = c /\ p.startDate # Null /\ p.completionDate # Null)) >= n }

JsContractorsWith(n) ==
    { c \in { r.Contractor : r \in Range(records) } :
        Len(SelectSeq(records, LAMBDA r :
              r.Contractor = c /\ r.StartDate # Null /\ r.ActualCompletionDate # Null)) >= n }

\* the contractors listed are eligible ones, and all of them when the cut to the
\* topN costliest leaves room for all
ListsEligible(listed, eligible) ==
    /\ listed \subseteq eligible
    /\ Cardinality(eligible) <= topN => listed = eligible

\* C6: in both programs a contractor is in report 2 only if it has at least 5
\* projects that have a completion delay, and, when no more than 15 contractors
\* have, every one of them is: 4 such projects exclude a contractor, exactly 5
\* make it eligible.
C6_MinimumProjectCount ==
    /\ ktReport2 # NotWritten =>
         ListsEligible({ Val(ktReport2)[i].contractor : i \in 1..Len(Val(ktReport2)) },
                       KtContractorsWith(5))
    /\ jsReport2 # NotWritten =>
         ListsEligible({ Val(jsReport2)[i].Contractor : i \in 1..Len(Val(jsReport2)) },
                       JsContractorsWith(5))

\* C6, Kotlin program alone.
C6_KotlinMinimumProjectCount ==
    ktReport2 # NotWritten =>
       ListsEligible({ Val(ktReport2)[i].contractor : i \in 1..Len(Val(ktReport2)) },
                     KtContractorsWith(5))

\* the Kotlin report lists a contractor that has exactly 5 projects with a delay
C6_KotlinWitness ==
    /\ ktReport2 # NotWritten
    /\ \E i \in 1..Len(Val(ktReport2)) : Val(ktReport2)[i].numprojects = 5

----------------------------------------------------------------------------
(* C7 *)

\* the year-over-year change as the specification defines it; base is {} when the
\* baseline year has no group of the work type
RefYoY(year, cur, base) ==
    IF year > 2021 /\ base # Null /\ Val(base) # Num(0)
    THEN DMul(DDiv(DSub(cur, Val(base)),
                   IF DLt(Val(base), Num(0)) THEN DNeg(Val(base)) ELSE Val(base)),
              Num(100))
    ELSE Num(0)

\* the average savings of the JavaScript records of a funding year and work type
JsGroupAvg(year, work) ==
    LET g == SelectSeq(records, LAMBDA r : r.FundingYear = Num(year) /\ r.TypeOfWork = work)
    IN  IF g = << >> THEN Null
        ELSE Some(Rat(SumSeq(MapSeq(g, LAMBDA r :
                          r.ApprovedBudgetForContract.n - r.ContractCost.n)), Len(g)))

KtBaselineAvg(rows, work) ==
    LET b == { i \in 1..Len(rows) : rows[i].fundingyear = 2021 /\ rows[i].typeofwork = work }
    IN  IF b = {} THEN Null ELSE Some(rows[CHOOSE i \in b : TRUE].avgsavings)

\* C7: in both programs every report 3 row of a numeric year has
\* yoyChange = ((avgSavings - baseline) / |baseline|) * 100 when its year is after
\* 2021 and a 2021 group of its work type exists with avgSavings # 0, and exactly 0
\* (never absent) in every other case.
C7_YoYChange ==
    /\ ktReport3 # NotWritten =>
         \A i \in 1..Len(Val(ktReport3)) :
            LET row == Val(ktReport3)[i]
            IN  row.yoychange = RefYoY(row.fundingyear, row.avgsavings,
                                       KtBaselineAvg(Val(ktReport3), row.typeofwork))
    /\ jsReport3 # NotWritten =>
         \A i \in 1..Len(Val(jsReport3)) :
            LET row == Val(jsReport3)[i]
            IN  IsNum(row.FundingYear) =>
                  row.YoYChange
                    = toFixed2(RefYoY(row.FundingYear.n,
                                      Val(JsGroupAvg(row.FundingYear.n, row.TypeOfWork)),
                                      JsGroupAvg(2021, row.TypeOfWork)))

\* C7, Kotlin program alone.
C7_KotlinYoYChange ==
    ktReport3 # NotWritten =>
       \A i \in 1..Len(Val(ktReport3)) :
          LET row == Val(ktReport3)[i]
          IN  row.yoychange = RefYoY(row.fundingyear, row.avgsavings,
                                     KtBaselineAvg(Val(ktReport3), row.typeofwork))

----------------------------------------------------------------------------
(* C8 *)

\* the accepted Kotlin record built from line `r` of the file
KtProjectOfRow(r) == CHOOSE p \in Range(allProjects) : p.row = r

\* approvedBudget - contractCost summed over a sequence of Kotlin records
KtBudgetLessCost(projects) ==
    SumSeq(MapSeq(projects, LAMBDA p : p.approvedBudget))
      - SumSeq(MapSeq(projects, LAMBDA p : p.contractCost))

JsBudgetLessCost(recs) ==
    SumSeq(MapSeq(recs, LAMBDA r : r.ApprovedBudgetForContract.n))
      - SumSeq(MapSeq(recs, LAMBDA r : r.ContractCost.n))

\* C8: for every accepted record costSavings is approvedBudget - contractCost: every
\* value a Kotlin record's lazy costSavings holds, after any number of report
\* generations, is that difference, and the savings every report and summary of
\* either program is built from are those differences.
C8_CostSavingsIsBudgetLessCost ==
    /\ \A r \in DOMAIN lazyCostSavings :
          lazyCostSavings[r] # Null =>
             lazyCostSavings[r]
               = Some(KtProjectOfRow(r).approvedBudget - KtProjectOfRow(r).contractCost)
    /\ ktSummary # NotWritten =>
          Val(ktSummary).total_savings_analyzed = Num(KtBudgetLessCost(filteredProjects))
    /\ ktReport3 # NotWritten =>
          \A i \in 1..Len(Val(ktReport3)) :
             LET row == Val(ktReport3)[i]
                 g == SelectSeq(filteredProjects, LAMBDA p :
                          /\ p.fundingYear = Some(row.fundingyear)
                          /\ p.typeOfWork = row.typeofwork)
             IN  row.avgsavings = Rat(KtBudgetLessCost(g), Len(g))
    /\ jsSummary # NotWritten =>
          Val(jsSummary).totalCostSavings = toFixed2(Num(JsBudgetLessCost(records)))
    /\ jsReport3 # NotWritten =>
          \A i \in 1..Len(Val(jsReport3)) :
             LET row == Val(jsReport3)[i]
                 g == SelectSeq(records, LAMBDA r :
                          r.FundingYear = row.FundingYear /\ r.TypeOfWork = row.TypeOfWork)
             IN  IsNum(row.FundingYear) =>
                    row.AverageCostSavings = toFixed2(Rat(JsBudgetLessCost(g), Len(g)))

\* the reports have been generated over a load that accepted a record whose contract
\* cost exceeds its budget and one that saved money, and both costSavings were read
C8_Witness ==
    /\ lang = "kotlin" /\ pc = "menu"
    /\ ktSummary # NotWritten
    /\ \E r \in DOMAIN lazyCostSavings :
          /\ lazyCostSavings[r] # Null
          /\ Val(lazyCostSavings[r]) < 0
    /\ \E r \in DOMAIN lazyCostSavings :
          /\ lazyCostSavings[r] # Null
          /\ Val(lazyCostSavings[r]) > 0

----------------------------------------------------------------------------
(* C9 *)

\* a load of a readable file with data rows has finished and accepted nothing
KtAllRejected ==
    lang = "kotlin" /\ pc = "menu" /\ totalRowsRead > 0 /\ allProjects = << >>

JsAllRejected ==
    lang = "js" /\ FileLoaded /\ Len(file.lines) > 1 /\ records = << >>

\* C9: after a load of a readable file whose data rows were all rejected, a
\* report-generation request is not answered with "no data loaded": it writes the
\* three reports with zero data rows and the summary.
C9_AllRejectedStillReports ==
    /\ (KtAllRejected /\ console \in { << "Error: No data loaded" >>,
                                       << "All Reports Generated and Saved" >> }) =>
          /\ console = << "All Reports Generated and Saved" >>
          /\ ktReport1 = Some(<< >>) /\ ktReport2 = Some(<< >>) /\ ktReport3 = Some(<< >>)
          /\ ktSummary # NotWritten
    /\ (JsAllRejected /\ console \in { << "No file loaded yet." >>,
                                       << "summary.json generated!" >> }) =>
          /\ console = << "summary.json generated!" >>
          /\ jsReport1 = Some(<< >>) /\ jsReport2 = Some(<< >>) /\ jsReport3 = Some(<< >>)
          /\ jsSummary # NotWritten

----------------------------------------------------------------------------
(* C10 *)

\* C10: with an input file that cannot be read, no session crashes, every load ends
\* with zero accepted records, zero rows read and zero rejections, reports the
\* failure exactly once, and writes no report.
C10_UnreadableFileAbortsCleanly ==
    ~file.readable =>
       /\ pc # "crashed"
       /\ allProjects = << >> /\ totalRowsRead = 0 /\ errorRowCount = 0
       /\ records = << >>
       /\ ktReport1 = NotWritten /\ ktReport2 = NotWritten /\ ktReport3 = NotWritten
       /\ ktSummary = NotWritten
       /\ jsReport1 = NotWritten /\ jsReport2 = NotWritten /\ jsReport3 = NotWritten
       /\ jsSummary = NotWritten
       /\ (console # << >> /\ console[Len(console)] = "Data Ingestion Complete") =>
             console = << "Error reading file", "Data Ingestion Complete" >>
       /\ (console # << >> /\ console[1] = "Loading file...") =>
             Cardinality({ i \in 1..Len(console) : console[i] = "Error reading file" }) = 1

\* C10, Kotlin program alone.
C10_KotlinUnreadableFileAbortsCleanly ==
    (lang = "kotlin" /\ ~file.readable) =>
       /\ pc # "crashed"
       /\ allProjects = << >> /\ totalRowsRead = 0 /\ errorRowCount = 0
       /\ ktReport1 = NotWritten /\ ktReport2 = NotWritten /\ ktReport3 = NotWritten
       /\ ktSummary = NotWritten
       /\ (console # << >> /\ console[Len(console)] = "Data Ingestion Complete") =>
             console = << "Error reading file", "Data Ingestion Complete" >>

----------------------------------------------------------------------------
(* C11 *)

Clamp(x, lo, hi) == IF DLt(x, lo) THEN lo ELSE IF DGt(x, hi) THEN hi ELSE x

\* the reliability index as the specification defines it
RefReliability(averageDelay, totalSavings, totalCost) ==
    LET delayFactor == Clamp(DSub(Num(1), DDiv(averageDelay, Num(90))), Num(0), Num(1))
        savingsFactor == IF DGt(totalCost, Num(0)) THEN DDiv(totalSavings, totalCost)
                         ELSE Num(0)
    IN  Clamp(DMul(DMul(delayFactor, savingsFactor), Num(100)), Num(0), Num(100))

\* C11: in both programs every contractor row has
\* reliabilityIndex = clamp(delayFactor * savingsFactor * 100, 0, 100) with
\* delayFactor = clamp(1 - averageDelay/90, 0, 1) and savingsFactor =
\* totalSavings/totalCost when totalCost > 0, else 0; it is a number in [0, 100]
\* and is 0 when averageDelay >= 90, totalCost <= 0 or totalSavings <= 0.
C11_ReliabilityIndexFormula ==
    /\ ktReport2 # NotWritten =>
         \A i \in 1..Len(Val(ktReport2)) :
            LET row == Val(ktReport2)[i]
            IN  /\ row.reliabilityindex
                     = RefReliability(row.avgdelay, row.totalsavings, row.totalcost)
                /\ InScoreRange(row.reliabilityindex)
                /\ (DLe(Num(90), row.avgdelay) \/ DLe(row.totalcost, Num(0))
                      \/ DLe(row.totalsavings, Num(0))) => row.reliabilityindex = Num(0)
    /\ jsReport2 # NotWritten =>
         \A i \in 1..Len(Val(jsReport2)) :
            LET row == Val(jsReport2)[i]
            IN  /\ row.ReliabilityIndex
                     = RefReliability(row.AverageCompletionDelayDays, row.TotalCostSavings,
                                      row.ContractCost)
                /\ InScoreRange(row.ReliabilityIndex)

\* C11, Kotlin program alone.
C11_KotlinReliabilityIndexFormula ==
    ktReport2 # NotWritten =>
       \A i \in 1..Len(Val(ktReport2)) :
          LET row == Val(ktReport2)[i]
          IN  /\ row.reliabilityindex
                   = RefReliability(row.avgdelay, row.totalsavings, row.totalcost)
              /\ InScoreRange(row.reliabilityindex)
              /\ (DLe(Num(90), row.avgdelay) \/ DLe(row.totalcost, Num(0))
                    \/ DLe(row.totalsavings, Num(0))) => row.reliabilityindex = Num(0)

\* a written Kotlin contractor row whose index is 0 because its savings are negative
C11_KotlinWitness ==
    /\ ktReport2 # NotWritten
    /\ \E i \in 1..Len(Val(ktReport2)) :
          /\ DLt(Val(ktReport2)[i].totalsavings, Num(0))
          /\ Val(ktReport2)[i].reliabilityindex = Num(0)

----------------------------------------------------------------------------
(* C12 *)

\* the total contract cost of a contractor's filtered projects that have a delay
KtTotalCostOf(c) ==
    SumSeq(MapSeq(SelectSeq(filteredProjects, LAMBDA p :
                      p.contractorName = c /\ p.startDate # Null /\ p.completionDate # Null),
                  LAMBDA p : p.contractCost))

Min(a, b) == IF a < b THEN a ELSE b

\* the Kotlin ranking: descending totalCost, the (at most 15) costliest surviving
\* groups, rank = 1-based position
KtRankingOrdered ==
    ktReport2 # NotWritten =>
       LET rows == Val(ktReport2)
           listed == { rows[i].contractor : i \in 1..Len(rows) }
       IN  /\ Len(rows) = Min(15, Cardinality(KtContractorsWith(5)))
           /\ listed \subseteq KtContractorsWith(5)
           /\ Cardinality(listed) = Len(rows)
           /\ \A i \in 1..Len(rows) :
                 /\ "rank" \in DOMAIN rows[i] /\ rows[i].rank = i
                 /\ rows[i].totalcost = Num(KtTotalCostOf(rows[i].contractor))
                 /\ \A j \in (i + 1)..Len(rows) : DLe(rows[j].totalcost, rows[i].totalcost)
                 /\ \A c \in KtContractorsWith(5) \ listed :
                       KtTotalCostOf(c) <= KtTotalCostOf(rows[i].contractor)

\* C12: in both programs report 2 lists the surviving contractors in descending order
\* of totalCost, has at most 15 rows, the costliest groups, and every row carries a
\* rank equal to its 1-based position.
C12_RankingOrderTopNAndRank ==
    /\ KtRankingOrdered
    /\ jsReport2 # NotWritten =>
         LET rows == Val(jsReport2)
         IN  /\ Len(rows) <= 15
             /\ \A i \in 1..Len(rows) :
                   /\ "rank" \in DOMAIN rows[i] /\ rows[i].rank = i
                   /\ \A j \in (i + 1)..Len(rows) :
                         DLe(rows[j].ContractCost, rows[i].ContractCost)

\* C12, Kotlin program alone.
C12_KotlinRankingOrderTopNAndRank == KtRankingOrdered

\* a Kotlin report of 15 rows written when 16 contractors survive
C12_KotlinWitness ==
    /\ ktReport2 # NotWritten
    /\ Len(Val(ktReport2)) = 15
    /\ Cardinality(KtContractorsWith(5)) > 15
    /\ Val(ktReport2)[1].contractor # "C1"

----------------------------------------------------------------------------
(* C13 *)

\* approvedBudget summed over all filtered Kotlin records of a (region, mainIsland)
KtGroupBudget(region, mainIsland) ==
    SumSeq(MapSeq(SelectSeq(filteredProjects, LAMBDA p :
                      p.region = region /\ p.mainIsland = mainIsland),
                  LAMBDA p : p.approvedBudget))

JsGroupBudget(region) ==
    SumSeq(MapSeq(SelectSeq(records, LAMBDA r : r.Region = region),
                  LAMBDA r : r.ApprovedBudgetForContract.n))

\* C13: in both programs the total budget of every region row of report 1 is the sum
\* of approvedBudget over all filtered records of the group, those without a
\* completion delay included.
C13_TotalBudgetOverAllGroupRecords ==
    /\ ktReport1 # NotWritten =>
         \A i \in 1..Len(Val(ktReport1)) :
            Val(ktReport1)[i].totalbudget
              = Num(KtGroupBudget(Val(ktReport1)[i].region, Val(ktReport1)[i].mainIsland))
    /\ jsReport1 # NotWritten =>
         \A i \in 1..Len(Val(jsReport1)) :
            Val(jsReport1)[i].TotalApprovedBudget
              = toFixed2(Num(JsGroupBudget(Val(jsReport1)[i].Region)))

----------------------------------------------------------------------------
(* C14 *)

\* the completion delay of a data line as the specification defines it: whole days
\* from start to completion when both texts are YYYY-MM-DD dates, else absent
RefDelay(line) ==
    IF IsIsoDate(line.sdate) /\ IsIsoDate(line.cdate)
    THEN Some(IsoEpochDay(line.cdate) - IsoEpochDay(line.sdate))
    ELSE Null

\* the delays present among a sequence of records (each built from line `row`)
RefDelays(recs) ==
    MapSeq(SelectSeq(recs, LAMBDA r : RefDelay(file.lines[r.row]) # Null),
           LAMBDA r : Val(RefDelay(file.lines[r.row])))

RefMean(s) == Rat(SumSeq(s), Len(s))

KtRegionGroup(row) ==
    SelectSeq(filteredProjects, LAMBDA p :
        p.region = row.region /\ p.mainIsland = row.mainIsland)

JsRegionGroup(row) == SelectSeq(records, LAMBDA r : r.Region = row.Region)

\* the Kotlin program: delay per record, and absent delays kept out of the means
KtDelayAbsentNeverCounted ==
    /\ \A i \in 1..Len(allProjects) :
          completionDelayDays(allProjects[i]) = RefDelay(file.lines[allProjects[i].row])
    /\ ktReport1 # NotWritten =>
          \A i \in 1..Len(Val(ktReport1)) :
             LET d == RefDelays(KtRegionGroup(Val(ktReport1)[i]))
             IN  d # << >> => Val(ktReport1)[i].avgdelay = RefMean(d)
    /\ ktSummary # NotWritten =>
          LET d == RefDelays(filteredProjects)
          IN  d # << >> => Val(ktSummary).global_avg_delay = RefMean(d)

\* C14: in both programs a record's completionDelayDays is completionDate - startDate
\* in whole days when both dates are valid and absent otherwise, and an absent
\* delay takes no part, as 0 or otherwise, in a region's averageDelay (nor, in the
\* Kotlin summary, in the global average delay).
C14_AbsentDelayNeverCounted ==
    /\ KtDelayAbsentNeverCounted
    /\ jsReport1 # NotWritten =>
          \A i \in 1..Len(Val(jsReport1)) :
             LET d == RefDelays(JsRegionGroup(Val(jsReport1)[i]))
             IN  d # << >> =>
                   Val(jsReport1)[i].AverageCompletionDelayDays = toFixed2(RefMean(d))

\* C14, Kotlin program alone.
C14_KotlinAbsentDelayNeverCounted == KtDelayAbsentNeverCounted

\* a Kotlin summary over a record with a delay and a record with an invalid start date
C14_KotlinWitness ==
    /\ ktSummary # NotWritten
    /\ \E i, j \in 1..Len(filteredProjects) :
          /\ RefDelay(file.lines[filteredProjects[i].row]) = Null
          /\ file.lines[filteredProjects[i].row].sdate # << >>
          /\ RefDelay(file.lines[filteredProjects[j].row]) # Null

----------------------------------------------------------------------------
(* C15 *)

AllNum(values) == \A v \in values : IsNum(v)

KtReportsEmitOnlyNumbers ==
    /\ ktReport1 # NotWritten =>
          \A i \in 1..Len(Val(ktReport1)) :
             LET row == Val(ktReport1)[i]
             IN  AllNum({ row.totalbudget, row.mediansavings, row.avgdelay,
                          row.highdelaypct, row.efficiencyscore })
    /\ ktReport2 # NotWritten =>
          \A i \in 1..Len(Val(ktReport2)) :
             LET row == Val(ktReport2)[i]
             IN  AllNum({ row.totalcost, row.avgdelay, row.totalsavings,
                          row.reliabilityindex })
    /\ ktReport3 # NotWritten =>
          \A i \in 1..Len(Val(ktReport3)) :
             LET row == Val(ktReport3)[i]
             IN  AllNum({ row.avgsavings, row.overrunrate, row.yoychange })

KtSummaryEmitsOnlyNumbers ==
    ktSummary # NotWritten =>
       AllNum({ Val(ktSummary).global_avg_delay, Val(ktSummary).total_savings_analyzed })

JsEmitsOnlyNumbers ==
    /\ jsReport1 # NotWritten =>
          \A i \in 1..Len(Val(jsReport1)) :
             LET row == Val(jsReport1)[i]
             IN  AllNum({ row.TotalApprovedBudget, row.MedianCostSavings,
                          row.AverageCompletionDelayDays, row.PercentageDelay,
                          row.EfficiencyScore })
    /\ jsReport2 # NotWritten =>
          \A i \in 1..Len(Val(jsReport2)) :
             LET row == Val(jsReport2)[i]
             IN  AllNum({ row.ContractCost, row.AverageCompletionDelayDays,
                          row.TotalCostSavings, row.ReliabilityIndex })
    /\ jsReport3 # NotWritten =>
          \A i \in 1..Len(Val(jsReport3)) :
             LET row == Val(jsReport3)[i]
             IN  AllNum({ row.FundingYear, row.AverageCostSavings, row.OverrunRate,
                          row.YoYChange })
    /\ jsSummary # NotWritten =>
          AllNum({ Val(jsSummary).averageDelayDays, Val(jsSummary).totalCostSavings })

\* C15: in both programs no value written to a report row or to the summary is
\* NaN, infinite or undefined, whatever the filtered record set.
C15_NoNaNInfiniteOrUndefinedOutput ==
    KtReportsEmitOnlyNumbers /\ KtSummaryEmitsOnlyNumbers /\ JsEmitsOnlyNumbers

\* C15, the three reports of the Kotlin program alone (its summary left aside).
C15_KotlinReportsNoNaNOutput == KtReportsEmitOnlyNumbers

----------------------------------------------------------------------------
(* C16 *)

\* every value the Kotlin summary holds, as a number
KtSummaryValues ==
    LET s == Val(ktSummary)
    IN  { Num(s.total_projects_read), Num(s.total_projects_analyzed),
          Num(s.total_unique_contractors), Num(s.total_unique_regions),
          s.global_avg_delay, s.total_savings_analyzed }

JsSummaryValues ==
    LET s == Val(jsSummary)
    IN  { Num(s.totalProjects), Num(s.totalContractors), s.averageDelayDays,
          s.totalCostSavings }

\* C16: in both programs the summary holds the three counts of the full ingestion:
\* the data lines read, the records accepted before filtering, and the rows
\* rejected.  (The JavaScript load keeps no counters and filters while it accepts:
\* its counts are those of the file it loaded.)
C16_SummaryHoldsIngestionCounts ==
    /\ ktSummary # NotWritten =>
          /\ Num(totalRowsRead) \in KtSummaryValues
          /\ Num(Len(allProjects)) \in KtSummaryValues
          /\ Num(errorRowCount) \in KtSummaryValues
    /\ jsSummary # NotWritten =>
          /\ Num(Len(file.lines) - 1) \in JsSummaryValues
          /\ Num(Len(records)) \in JsSummaryValues
          /\ Num(Len(file.lines) - 1 - Len(records)) \in JsSummaryValues

\* C16, the accepted count alone: both summaries hold the number of accepted records.
C16_SummaryHoldsAcceptedCount ==
    /\ ktSummary # NotWritten => Val(ktSummary).total_projects_read = Len(allProjects)
    /\ jsSummary # NotWritten => Val(jsSummary).totalProjects = Len(records)

----------------------------------------------------------------------------
(* C17 *)

\* the lines of the file a load accepts, in file order
RefAcceptedRows ==
    SelectSeq([ i \in 1..(Len(file.lines) - 1) |-> i + 1 ],
              LAMBDA i : file.lines[i].ncols >= 17 /\ MoneyParses(file.lines[i]))

RefRejectedCount ==
    Cardinality({ i \in 2..Len(file.lines) :
        /\ file.lines[i].ncols # 0
        /\ (file.lines[i].ncols < 17 \/ ~MoneyParses(file.lines[i])) })

\* C17: whenever a load of the Kotlin program has returned, however many loads came
\* before it in the session, the accepted list is the records of the accepted lines
\* of the file, once each and in file order, and the rows-read and rejected
\* counters are those of one pass over the file; a repeated load request of the
\* JavaScript program leaves the records of the first load in place.
C17_ReloadYieldsSameResult ==
    /\ KtLoaded =>
         /\ MapSeq(allProjects, LAMBDA p : p.row) = RefAcceptedRows
         /\ \A k \in 1..Len(allProjects) :
               allProjects[k] = FloodProject(allProjects[k].row,
                                             file.lines[allProjects[k].row],
                                             amountOf(file.lines[allProjects[k].row].budget),
                                             amountOf(file.lines[allProjects[k].row].cost))
         /\ totalRowsRead = Len(file.lines) - 1
         /\ errorRowCount = RefRejectedCount
    /\ (lang = "kotlin" /\ pc = "menu" /\ totalRowsRead = 0) =>
         (allProjects = << >> /\ errorRowCount = 0)
    /\ FileLoaded => records = loadFileSync(file)

\* a second load of the Kotlin program has returned: reports of an earlier load are
\* on disk, the load has just completed, and it accepted some rows and rejected one
C17_Witness ==
    /\ KtLoaded
    /\ console = << "Data Ingestion Complete" >>
    /\ ktSummary # NotWritten
    /\ Len(allProjects) > 1
    /\ errorRowCount = 1

\* the JavaScript program has answered a second load request
C17_JsWitness ==
    /\ lang = "js"
    /\ console = << "File already loaded." >>
    /\ records # << >>

----------------------------------------------------------------------------
(* C18 *)

\* the Kotlin summary metrics over the filtered records
KtSummaryMetrics ==
    ktSummary # NotWritten =>
       LET s == Val(ktSummary)
           d == RefDelays(filteredProjects)
       IN  /\ d # << >> => s.global_avg_delay = RefMean(d)
           /\ s.total_savings_analyzed = Num(KtBudgetLessCost(filteredProjects))
           /\ s.total_unique_contractors
                = Cardinality({ p.contractorName : p \in Range(filteredProjects) })
           /\ s.total_unique_regions
                = Cardinality({ p.region : p \in Range(filteredProjects) })
           /\ s.total_projects_analyzed = Len(filteredProjects)

\* C18: in the summary of both programs the global average delay is the mean of
\* completionDelayDays over exactly the filtered records that have a delay, the total
\* savings is the sum of costSavings over all filtered records, and the contractor
\* (and, in the Kotlin summary, region) counts are the numbers of distinct values
\* among the filtered records.
C18_SummaryMetrics ==
    /\ KtSummaryMetrics
    /\ jsSummary # NotWritten =>
          LET s == Val(jsSummary)
              d == RefDelays(records)
          IN  /\ d # << >> => s.averageDelayDays = toFixed2(RefMean(d))
              /\ s.totalCostSavings = toFixed2(Num(JsBudgetLessCost(records)))
              /\ s.totalContractors = Cardinality({ r.Contractor : r \in Range(records) })

\* C18, Kotlin program alone.
C18_KotlinSummaryMetrics == KtSummaryMetrics

\* a Kotlin summary over filtered records of two contractors and two regions, one of
\* them without a delay, while a record outside the year range was accepted
C18_KotlinWitness ==
    /\ ktSummary # NotWritten
    /\ Val(ktSummary).total_unique_contractors = 2
    /\ Val(ktSummary).total_unique_regions = 2
    /\ Len(RefDelays(filteredProjects)) = 1
    /\ Len(filteredProjects) = 2
    /\ Len(allProjects) = 3


----------------------------------------------------------------------------
(* C19: the risk flag of a contractor row *)

\* the flag the claim gives a row whose reported reliability index is `index`
RefRiskFlag(index) == IF DLt(index, Num(50)) THEN "High Risk" ELSE "Low Risk"

KtJsRiskFlagFollowsIndex ==
    /\ ktReport2 # NotWritten =>
         \A i \in 1..Len(Val(ktReport2)) :
            Val(ktReport2)[i].riskflag = RefRiskFlag(Val(ktReport2)[i].reliabilityindex)
    /\ jsReport2 # NotWritten =>
         \A i \in 1..Len(Val(jsReport2)) :
            Val(jsReport2)[i].Flag = RefRiskFlag(Val(jsReport2)[i].ReliabilityIndex)

\* C19: in every contractor row any of the three programs writes, the risk flag
\* is "High Risk" exactly when the reported reliability index is below 50 and
\* "Low Risk" otherwise; no other flag value occurs.
C19_RiskFlagHighBelowFiftyElseLow ==
    /\ KtJsRiskFlagFollowsIndex
    /\ rReport2 # NotWritten =>
         \A i \in 1..Len(Val(rReport2)) :
            Val(rReport2)[i].RiskFlag = RefRiskFlag(Val(rReport2)[i].ReliabilityIndex)

\* C19, Kotlin and JavaScript programs alone: their flag is "High Risk" exactly
\* when the reported index is below 50 and "Low Risk" otherwise.
C19_KotlinJsRiskFlag == KtJsRiskFlagFollowsIndex

\* both flags occur: a written Kotlin report with a "High Risk" row, and a
\* written JavaScript report with a "Low Risk" row
C19_KotlinHighRiskWitness ==
    /\ ktReport2 # NotWritten
    /\ \E i \in 1..Len(Val(ktReport2)) : Val(ktReport2)[i].riskflag = "High Risk"

C19_JsLowRiskWitness ==
    /\ jsReport2 # NotWritten
    /\ \E i \in 1..Len(Val(jsReport2)) : Val(jsReport2)[i].Flag = "Low Risk"

\* an R row whose index is at least 50
C19_RNotBelowFiftyWitness ==
    /\ rReport2 # NotWritten
    /\ \E i \in 1..Len(Val(rReport2)) :
          DLe(Num(50), Val(rReport2)[i].ReliabilityIndex)


----------------------------------------------------------------------------
(* C20: averageDelay and highDelayPct of a region *)

\* 100 * (number of delays strictly above 30) / (number of delays)
RefHighDelayPct(d) ==
    Rat(100 * Len(SelectSeq(d, LAMBDA x : x > 30)), Len(d))

KtRegionDelayMetrics ==
    ktReport1 # NotWritten =>
       \A i \in 1..Len(Val(ktReport1)) :
          LET d == RefDelays(KtRegionGroup(Val(ktReport1)[i]))
          IN  d # << >> => /\ Val(ktReport1)[i].avgdelay = RefMean(d)
                           /\ Val(ktReport1)[i].highdelaypct = RefHighDelayPct(d)

\* C20: in both programs' regional report, averageDelay of a group is the mean of
\* completionDelayDays over the group's records that have a delay, and
\* highDelayPct is 100 * (those with a delay strictly above 30) / (those with a
\* delay); a delay of exactly 30 days is not a high delay.
C20_RegionDelayMetricsOverDelayPresent ==
    /\ KtRegionDelayMetrics
    /\ jsReport1 # NotWritten =>
          \A i \in 1..Len(Val(jsReport1)) :
             LET d == RefDelays(JsRegionGroup(Val(jsReport1)[i]))
             IN  d # << >> =>
                   /\ Val(jsReport1)[i].AverageCompletionDelayDays = toFixed2(RefMean(d))
                   /\ Val(jsReport1)[i].PercentageDelay = toFixed2(RefHighDelayPct(d))

\* C20, Kotlin program alone.
C20_KotlinRegionDelayMetrics == KtRegionDelayMetrics

\* a written Kotlin region row over a delay of exactly 30 days, a longer delay and
\* a record without a delay, whose highDelayPct is 50
C20_KotlinWitness ==
    /\ ktReport1 # NotWritten
    /\ \E i \in 1..Len(Val(ktReport1)) :
          LET g == KtRegionGroup(Val(ktReport1)[i])
              d == RefDelays(g)
          IN  /\ Len(g) = 3 /\ Len(d) = 2
              /\ \E j \in 1..2 : d[j] = 30
              /\ \E j \in 1..2 : d[j] > 30
              /\ Val(ktReport1)[i].highdelaypct = Num(50)
              /\ Val(ktReport1)[i].avgdelay = Num(35)


----------------------------------------------------------------------------
(* C21: no blank categorical field *)

KtLabelsPresent ==
    /\ \A i \in 1..Len(allProjects) :
          /\ allProjects[i].region # ""
          /\ allProjects[i].mainIsland # ""
          /\ allProjects[i].contractorName # ""
          /\ allProjects[i].typeOfWork # ""
    /\ ktReport1 # NotWritten =>
          \A i \in 1..Len(Val(ktReport1)) : Val(ktReport1)[i].region # ""
    /\ ktReport2 # NotWritten =>
          \A i \in 1..Len(Val(ktReport2)) : Val(ktReport2)[i].contractor # ""
    /\ ktReport3 # NotWritten =>
          \A i \in 1..Len(Val(ktReport3)) : Val(ktReport3)[i].typeofwork # ""

JsLabelsPresent ==
    /\ \A i \in 1..Len(records) :
          /\ records[i].Region # ""
          /\ records[i].Contractor # ""
          /\ records[i].TypeOfWork # ""
    /\ jsReport1 # NotWritten =>
          \A i \in 1..Len(Val(jsReport1)) : Val(jsReport1)[i].Region # ""
    /\ jsReport2 # NotWritten =>
          \A i \in 1..Len(Val(jsReport2)) : Val(jsReport2)[i].Contractor # ""
    /\ jsReport3 # NotWritten =>
          \A i \in 1..Len(Val(jsReport3)) : Val(jsReport3)[i].TypeOfWork # ""

\* C21: in both programs no accepted record has an empty region, mainIsland,
\* contractorName or typeOfWork, and no report has a group keyed by the empty
\* string.
C21_NoBlankCategoricalField == KtLabelsPresent /\ JsLabelsPresent


----------------------------------------------------------------------------
(* C22: dates and funding year never reject a row *)

\* a date field as the specification defines it: the day of a YYYY-MM-DD text,
\* absent for any other text
RefDate(text) == IF IsIsoDate(text) THEN Some(IsoEpochDay(text)) ELSE Null

\* a funding year as the specification defines it: the value of an integer text,
\* absent for any other text
RefYear(text) ==
    IF IsDigits(text) THEN Some(DigitsVal(text))
    ELSE IF Len(text) > 1 /\ text[1] \in { "-", "+" } /\ IsDigits(Tail(text))
         THEN Some(IF text[1] = "-" THEN 0 - DigitsVal(Tail(text))
                   ELSE DigitsVal(Tail(text)))
         ELSE Null

\* the row has enough columns and two parseable monetary fields
Acceptable(line) == line.ncols >= 17 /\ MoneyParses(line)

\* the lines lo..hi that the rejection counter counts: non-blank and not acceptable
RefRejectedIn(lo, hi) ==
    Cardinality({ i \in lo..hi : file.lines[i].ncols # 0 /\ ~Acceptable(file.lines[i]) })

\* the records hold every acceptable line among lo..hi once, with its date and
\* year fields present exactly when their text is well-formed
KtAcceptsIn(projects, lo, hi) ==
    \A i \in lo..hi :
       Acceptable(file.lines[i]) =>
          /\ Cardinality({ k \in 1..Len(projects) : projects[k].row = i }) = 1
          /\ \A k \in 1..Len(projects) :
                projects[k].row = i =>
                   /\ projects[k].startDate = RefDate(file.lines[i].sdate)
                   /\ projects[k].completionDate = RefDate(file.lines[i].cdate)
                   /\ projects[k].fundingYear = RefYear(file.lines[i].fyear)

KtDatesAndYearNeverReject ==
    lang = "kotlin" =>
      /\ pc = "reading" =>
           /\ KtAcceptsIn(rdProjects, 2, rdPos - 1)
           /\ rdErrorRowCount = RefRejectedIn(2, rdPos - 1)
      /\ KtLoaded =>
           /\ KtAcceptsIn(allProjects, 2, Len(file.lines))
           /\ errorRowCount = RefRejectedIn(2, Len(file.lines))

\* C22: in both programs a row with enough columns and two parseable monetary
\* fields is accepted whatever its start date, completion date and funding year
\* texts are; a blank or malformed one makes that field absent and leaves the
\* rejection counter alone.
C22_DatesAndYearNeverReject ==
    /\ KtDatesAndYearNeverReject
    /\ FileLoaded =>
         \A i \in 2..Len(file.lines) :
            Acceptable(file.lines[i]) => \E k \in 1..Len(records) : records[k].row = i

\* C22, Kotlin program alone.
C22_KotlinDatesAndYearNeverReject == KtDatesAndYearNeverReject

\* a Kotlin load has returned an accepted record with no start date and an accepted
\* record with no funding year, and counted no rejection
C22_KotlinWitness ==
    /\ KtLoaded
    /\ errorRowCount = 0
    /\ \E k \in 1..Len(allProjects) :
          /\ allProjects[k].startDate = Null
          /\ file.lines[allProjects[k].row].sdate # << >>
    /\ \E k \in 1..Len(allProjects) : allProjects[k].fundingYear = Null


----------------------------------------------------------------------------
(* C23: generation leaves the accepted records alone *)

\* the step is a report generation of the Kotlin program that found records
KtGenerationStep ==
    lang = "kotlin" /\ pc = "menu" /\ console' = << "All Reports Generated and Saved" >>

\* the step is a report generation of the JavaScript program that found records
JsGenerationStep ==
    lang = "js" /\ pc = "menu" /\ console' = << "summary.json generated!" >>

\* C23: a report generation, year filtering included, leaves the accepted record
\* collection as it was (same records, same order, same field values), the
\* filtered collection being those of its records the filter keeps, in their
\* order; and a generation that follows a generation writes the same reports and
\* summary again.
C23_GenerationLeavesRecordsUnchanged ==
    [][ /\ KtGenerationStep =>
             /\ allProjects' = allProjects
             /\ filteredProjects'
                  = SelectSeq(allProjects, LAMBDA p : p \in Range(filteredProjects'))
             /\ console = << "All Reports Generated and Saved" >> =>
                  << ktReport1', ktReport2', ktReport3', ktSummary' >>
                    = << ktReport1, ktReport2, ktReport3, ktSummary >>
        /\ JsGenerationStep =>
             /\ records' = records
             /\ console = << "summary.json generated!" >> =>
                  << jsReport1', jsReport2', jsReport3', jsSummary' >>
                    = << jsReport1, jsReport2, jsReport3, jsSummary >> ]_vars

\* the Kotlin program has generated its reports from accepted records of which the
\* year filter keeps some and leaves out others
C23_Witness ==
    /\ lang = "kotlin"
    /\ console = << "All Reports Generated and Saved" >>
    /\ ktReport1 # NotWritten /\ ktSummary # NotWritten
    /\ filteredProjects # << >>
    /\ Len(filteredProjects) < Len(allProjects)

\* the JavaScript program has generated its reports from two or more records
C23_JsWitness ==
    /\ lang = "js"
    /\ console = << "summary.json generated!" >>
    /\ jsReport1 # NotWritten
    /\ Len(records) > 1


----------------------------------------------------------------------------
(* C24: the order of the annual trend report *)

KtTrendOrdered ==
    ktReport3 # NotWritten =>
       \A i \in 1..(Len(Val(ktReport3)) - 1) :
          LET a == Val(ktReport3)[i]
              b == Val(ktReport3)[i + 1]
          IN  \/ a.fundingyear < b.fundingyear
              \/ a.fundingyear = b.fundingyear /\ DLe(b.avgsavings, a.avgsavings)

\* C24: in both programs any two adjacent rows of the annual trend report have
\* either a strictly increasing fundingYear, or equal years and the first row's
\* avgSavings >= the second's.
C24_TrendRowsByYearThenSavings ==
    /\ KtTrendOrdered
    /\ jsReport3 # NotWritten =>
         \A i \in 1..(Len(Val(jsReport3)) - 1) :
            LET a == Val(jsReport3)[i]
                b == Val(jsReport3)[i + 1]
            IN  \/ DLt(a.FundingYear, b.FundingYear)
                \/ /\ IsNum(a.FundingYear) /\ a.FundingYear = b.FundingYear
                   /\ DLe(b.AverageCostSavings, a.AverageCostSavings)

\* C24, Kotlin program alone.
C24_KotlinTrendRowsByYearThenSavings == KtTrendOrdered

\* C24, JavaScript program, reports whose rows all carry a numeric FundingYear.
C24_JsTrendRowsWithNumericYears ==
    (jsReport3 # NotWritten
       /\ \A i \in 1..Len(Val(jsReport3)) : IsNum(Val(jsReport3)[i].FundingYear)) =>
         \A i \in 1..(Len(Val(jsReport3)) - 1) :
            LET a == Val(jsReport3)[i]
                b == Val(jsReport3)[i + 1]
            IN  \/ DLt(a.FundingYear, b.FundingYear)
                \/ /\ a.FundingYear = b.FundingYear
                   /\ DLe(b.AverageCostSavings, a.AverageCostSavings)

\* a written Kotlin trend report of three rows, two of one year with different
\* avgSavings, whose groups were met in the file in another order than the rows'
C24_KotlinWitness ==
    /\ ktReport3 # NotWritten
    /\ Len(Val(ktReport3)) = 3
    /\ Val(ktReport3)[1].fundingyear = Val(ktReport3)[2].fundingyear
    /\ Val(ktReport3)[1].avgsavings # Val(ktReport3)[2].avgsavings
    /\ Val(ktReport3)[2].fundingyear < Val(ktReport3)[3].fundingyear
    /\ filteredProjects[1].fundingYear = Some(Val(ktReport3)[3].fundingyear)
    /\ filteredProjects[2].typeOfWork = Val(ktReport3)[2].typeofwork
    /\ filteredProjects[2].fundingYear = Some(Val(ktReport3)[2].fundingyear)


----------------------------------------------------------------------------
(* C25: the order of the regional efficiency report *)

Least(S) == CHOOSE x \in S : \A y \in S : x <= y

\* the place in the filtered list of the first record of the row's region
KtFirstMet(row) ==
    Least({ k \in 1..Len(filteredProjects) :
            /\ filteredProjects[k].region = row.region
            /\ filteredProjects[k].mainIsland = row.mainIsland })

\* the same, among the records with a delay, of which the program forms its groups
KtFirstMetWithDelay(row) ==
    Least({ k \in 1..Len(filteredProjects) :
            /\ filteredProjects[k].region = row.region
            /\ filteredProjects[k].mainIsland = row.mainIsland
            /\ RefDelay(file.lines[filteredProjects[k].row]) # Null })

JsFirstMet(row) == Least({ k \in 1..Len(records) : records[k].Region = row.Region })

\* rows by efficiencyScore descending, ties by the place `place` gives a row
KtRegionsOrdered(place(_)) ==
    ktReport1 # NotWritten =>
       \A i, j \in 1..Len(Val(ktReport1)) :
          i < j =>
            LET a == Val(ktReport1)[i]
                b == Val(ktReport1)[j]
            IN  \/ DGt(a.efficiencyscore, b.efficiencyscore)
                \/ a.efficiencyscore = b.efficiencyscore /\ place(a) < place(b)

\* C25: in both programs the rows of the regional efficiency report are ordered by
\* efficiencyScore descending, and groups with equal efficiencyScore appear in the
\* order in which they were first met in the filtered record list.
C25_RegionRowsByScoreStable ==
    /\ KtRegionsOrdered(KtFirstMet)
    /\ jsReport1 # NotWritten =>
         \A i, j \in 1..Len(Val(jsReport1)) :
            i < j =>
              LET a == Val(jsReport1)[i]
                  b == Val(jsReport1)[j]
              IN  \/ DGt(a.EfficiencyScore, b.EfficiencyScore)
                  \/ /\ ~isNaN(a.EfficiencyScore)
                     /\ a.EfficiencyScore = b.EfficiencyScore
                     /\ JsFirstMet(a) < JsFirstMet(b)

\* C25, Kotlin program alone, a group being met at its first record with a delay.
C25_KotlinRegionRowsByScoreStable == KtRegionsOrdered(KtFirstMetWithDelay)

\* a written Kotlin report of two regions with equal scores, the first row being
\* the region met first, which is not the first in alphabetical order
C25_KotlinWitness ==
    /\ ktReport1 # NotWritten
    /\ Len(Val(ktReport1)) = 2
    /\ Val(ktReport1)[1].efficiencyscore = Val(ktReport1)[2].efficiencyscore
    /\ Val(ktReport1)[1].region = "Region VI"
    /\ filteredProjects[1].region = "Region VI"


----------------------------------------------------------------------------
(* C26: a short line is counted and ingestion goes on *)

\* the non-blank lines with fewer than 17 columns among lines lo..hi
ShortLines(lo, hi) ==
    { i \in lo..hi : file.lines[i].ncols # 0 /\ file.lines[i].ncols < 17 }

\* the lines with 17 columns whose monetary texts do not parse, among lines lo..hi
MoneyFailedLines(lo, hi) ==
    { i \in lo..hi : file.lines[i].ncols >= 17 /\ ~MoneyParses(file.lines[i]) }

\* after lines lo..hi: no record of a short line, one rejection counted for each
\* short line besides those for unparseable amounts, and a record of every valid line
ShortLinesCounted(projects, errors, lo, hi) ==
    /\ \A k \in 1..Len(projects) : projects[k].row \notin ShortLines(lo, hi)
    /\ errors = Cardinality(ShortLines(lo, hi)) + Cardinality(MoneyFailedLines(lo, hi))
    /\ \A i \in lo..hi :
          Acceptable(file.lines[i]) => \E k \in 1..Len(projects) : projects[k].row = i

KtShortLinesCounted ==
    lang = "kotlin" =>
      /\ pc = "reading" => ShortLinesCounted(rdProjects, rdErrorRowCount, 2, rdPos - 1)
      /\ KtLoaded => ShortLinesCounted(allProjects, errorRowCount, 2, Len(file.lines))

\* C26: in both Kotlin readers, after every line read, a non-blank line of fewer
\* than 17 columns has produced no record and has added exactly 1 to the
\* rejection counter, and every valid line read so far, after a short line or
\* not, has been accepted.
C26_ShortLineCountedAndSkipped ==
    /\ KtShortLinesCounted
    /\ (v1Result # Null /\ ShortLines(2, Len(file.lines)) # {}) =>
         /\ "errorRowCount" \in DOMAIN Val(v1Result)
         /\ ShortLinesCounted(Val(v1Result).projects, Val(v1Result).errorRowCount,
                              2, Len(file.lines))

\* C26, second Kotlin version alone.
C26_KotlinShortLineCountedAndSkipped == KtShortLinesCounted

\* C26, first Kotlin version, without the counter: a short line gives no record and
\* every valid line is accepted.
C26_FirstKotlinShortLineSkipped ==
    v1Result # Null =>
       /\ \A k \in 1..Len(Val(v1Result).projects) :
             Val(v1Result).projects[k].row \notin ShortLines(2, Len(file.lines))
       /\ \A i \in 2..Len(file.lines) :
             Acceptable(file.lines[i]) =>
                \E k \in 1..Len(Val(v1Result).projects) :
                   Val(v1Result).projects[k].row = i

\* the second Kotlin version has read a short line and then accepted a valid line
C26_KotlinWitness ==
    /\ KtLoaded
    /\ errorRowCount = 1
    /\ \E i \in ShortLines(2, Len(file.lines)) :
          \E k \in 1..Len(allProjects) : allProjects[k].row > i

\* the first Kotlin version has read a short line and then accepted a valid line
C26_FirstKotlinWitness ==
    /\ v1Result # Null
    /\ \E i \in ShortLines(2, Len(file.lines)) :
          \E k \in 1..Len(Val(v1Result).projects) : Val(v1Result).projects[k].row > i


----------------------------------------------------------------------------
(* C27: accepted amounts are not negative *)

KtAmountsNonNegative ==
    \A k \in 1..Len(allProjects) :
       allProjects[k].approvedBudget >= 0 /\ allProjects[k].contractCost >= 0

JsAmountsNonNegative ==
    \A k \in 1..Len(records) :
       /\ DLe(Num(0), records[k].ApprovedBudgetForContract)
       /\ DLe(Num(0), records[k].ContractCost)

\* C27: in both programs every accepted record has approvedBudget >= 0 and
\* contractCost >= 0.
C27_AcceptedAmountsNonNegative == KtAmountsNonNegative /\ JsAmountsNonNegative


----------------------------------------------------------------------------
(* C28: thousands separators in the monetary fields *)

\* the value of a monetary text once its thousands separators are removed
RefAmount(text) ==
    LET u == SelectSeq(text, LAMBDA c : c # ",")
    IN  IF u[1] \in { "-", "+" }
        THEN (IF u[1] = "-" THEN 0 - DigitsVal(Tail(u)) ELSE DigitsVal(Tail(u)))
        ELSE DigitsVal(u)

HasSeparator(text) == \E i \in 1..Len(text) : text[i] = ","

\* the row has 17 columns, parseable amounts, and a separator in one of them
SeparatedRow(line) ==
    Acceptable(line) /\ (HasSeparator(line.budget) \/ HasSeparator(line.cost))

KtSeparatorsRemoved ==
    KtLoaded =>
       \A i \in 2..Len(file.lines) :
          SeparatedRow(file.lines[i]) =>
             \E k \in 1..Len(allProjects) :
                /\ allProjects[k].row = i
                /\ allProjects[k].approvedBudget = RefAmount(file.lines[i].budget)
                /\ allProjects[k].contractCost = RefAmount(file.lines[i].cost)

\* C28: in both programs a row whose approvedBudget or contractCost is written
\* with comma separators is accepted, with the value the text has once the
\* separators are removed.
C28_ThousandsSeparatorsRemoved ==
    /\ KtSeparatorsRemoved
    /\ FileLoaded =>
         \A i \in 2..Len(file.lines) :
            (SeparatedRow(file.lines[i]) /\ YearTextInRange(file.lines[i].fyear)) =>
               \E k \in 1..Len(records) :
                  /\ records[k].row = i
                  /\ records[k].ApprovedBudgetForContract
                       = Num(RefAmount(file.lines[i].budget))
                  /\ records[k].ContractCost = Num(RefAmount(file.lines[i].cost))

\* C28, Kotlin program alone.
C28_KotlinThousandsSeparatorsRemoved == KtSeparatorsRemoved

\* a Kotlin load has accepted a row whose budget is written 1,234 with the value 1234
C28_KotlinWitness ==
    /\ KtLoaded
    /\ errorRowCount = 0
    /\ \E k \in 1..Len(allProjects) :
          /\ HasSeparator(file.lines[allProjects[k].row].budget)
          /\ allProjects[k].approvedBudget = 1234


----------------------------------------------------------------------------
(* C29: the JavaScript menu session *)

\* the menu loop asks for no further choice
JsLoopStopped == ~running \/ pc = "crashed"

\* the properties of a step of the session that concern FileLoaded and records
JsFlagAndRecordsStep ==
    /\ (JsGenerationStep
          \/ << jsReport1', jsReport2', jsReport3', jsSummary' >>
               # << jsReport1, jsReport2, jsReport3, jsSummary >>)
         => (FileLoaded /\ records # << >>)
    /\ FileLoaded => FileLoaded'
    /\ FileLoaded => records' = records
    /\ console' = << "Invalid choice." >> =>
         UNCHANGED << running, FileLoaded, records, pc, jsReport1, jsReport2, jsReport3,
                      jsSummary >>

\* C29: in every step of a JavaScript session the report generators run only
\* where FileLoaded is true and records is non-empty, FileLoaded does not return
\* to false, a Load request after a successful load leaves records unchanged, an
\* invalid choice changes no state, and the loop stops on choice 3 and on no
\* other choice.
C29_JsMenuSession ==
    [][ lang = "js" =>
          /\ JsFlagAndRecordsStep
          /\ (~JsLoopStopped /\ JsLoopStopped') => console' = << "Exiting program..." >>
          /\ console' = << "Exiting program..." >> => JsLoopStopped' ]_vars

\* C29 with the loop taken to stop when `running` becomes false.
C29_JsMenuSessionRunningFlag ==
    [][ lang = "js" =>
          /\ JsFlagAndRecordsStep
          /\ (running /\ ~running') => console' = << "Exiting program..." >>
          /\ console' = << "Exiting program..." >> => ~running' ]_vars

\* after a successful load with records, reports were generated and a later choice
\* was answered with "File already loaded."
C29_JsWitness ==
    /\ lang = "js" /\ running
    /\ FileLoaded /\ records # << >>
    /\ jsSummary # NotWritten
    /\ console = << "File already loaded." >>

\* an invalid choice was answered before any load
C29_JsInvalidWitness ==
    /\ lang = "js" /\ running /\ ~FileLoaded
    /\ console = << "Invalid choice." >>


----------------------------------------------------------------------------
(* C30: the annual trend report counts every record once *)

\* the filtered records with a funding year
KtWithYear == SelectSeq(filteredProjects, LAMBDA p : p.fundingYear # Null)

KtTrendConserves ==
    ktReport3 # NotWritten =>
       LET rows == Val(ktReport3)
       IN  /\ \A i, j \in 1..Len(rows) :
                  (rows[i].fundingyear = rows[j].fundingyear
                     /\ rows[i].typeofwork = rows[j].typeofwork) => i = j
           /\ \A i \in 1..Len(rows) :
                  /\ rows[i].totalprojects >= 1
                  /\ rows[i].totalprojects
                       = Len(SelectSeq(KtWithYear, LAMBDA p :
                             /\ p.fundingYear = Some(rows[i].fundingyear)
                             /\ p.typeOfWork = rows[i].typeofwork))
           /\ \A k \in 1..Len(KtWithYear) :
                  \E i \in 1..Len(rows) :
                     /\ KtWithYear[k].fundingYear = Some(rows[i].fundingyear)
                     /\ KtWithYear[k].typeOfWork = rows[i].typeofwork
           /\ SumSeq(MapSeq(rows, LAMBDA r : r.totalprojects)) = Len(KtWithYear)

\* the records of the JavaScript program with a funding year
JsWithYear == SelectSeq(records, LAMBDA r : IsNum(r.FundingYear))

\* C30: in both programs each filtered record with a funding year is counted in
\* exactly one (fundingYear, typeOfWork) row of the annual trend report, each key
\* has at most one row, every row has totalProjects >= 1, and the totalProjects
\* of the rows add up to the number of filtered records with a funding year.
C30_TrendGroupingConservesRecords ==
    /\ KtTrendConserves
    /\ jsReport3 # NotWritten =>
         LET rows == Val(jsReport3)
         IN  /\ \A i, j \in 1..Len(rows) :
                    (~StrictNe(rows[i].FundingYear, rows[j].FundingYear)
                       /\ rows[i].TypeOfWork = rows[j].TypeOfWork) => i = j
             /\ \A i \in 1..Len(rows) : rows[i].TotalProjects >= 1
             /\ \A k \in 1..Len(JsWithYear) :
                    Cardinality({ i \in 1..Len(rows) :
                        /\ rows[i].FundingYear = JsWithYear[k].FundingYear
                        /\ rows[i].TypeOfWork = JsWithYear[k].TypeOfWork }) = 1
             /\ SumSeq(MapSeq(rows, LAMBDA r : r.TotalProjects)) = Len(JsWithYear)

\* C30, Kotlin program alone.
C30_KotlinTrendGroupingConservesRecords == KtTrendConserves

\* a written Kotlin trend report of two rows over three filtered records, one of
\* the rows counting two of them
C30_KotlinWitness ==
    /\ ktReport3 # NotWritten
    /\ Len(Val(ktReport3)) = 2
    /\ \E i \in 1..2 : Val(ktReport3)[i].totalprojects = 2
    /\ Len(KtWithYear) = 3


\* C30, JavaScript program, reports over records that all carry a numeric year.
C30_JsTrendGroupingWithNumericYears ==
    (jsReport3 # NotWritten /\ Len(JsWithYear) = Len(records)) =>
       LET rows == Val(jsReport3)
       IN  /\ \A i, j \in 1..Len(rows) :
                  (rows[i].FundingYear = rows[j].FundingYear
                     /\ rows[i].TypeOfWork = rows[j].TypeOfWork) => i = j
           /\ \A i \in 1..Len(rows) : rows[i].TotalProjects >= 1
           /\ \A k \in 1..Len(records) :
                  \E i \in 1..Len(rows) :
                     /\ rows[i].FundingYear = records[k].FundingYear
                     /\ rows[i].TypeOfWork = records[k].TypeOfWork
           /\ SumSeq(MapSeq(rows, LAMBDA r : r.TotalProjects)) = Len(records)

====
